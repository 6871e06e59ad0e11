---------------------------- MODULE MemoryEditor ----------------------------
(***************************************************************************)
(* The form that saves a memory (MemoryEditor.vue), of the memories page    *)
(* and of a candidate's card: it asks for the related memories first, shows *)
(* them, and writes when the same ones come back for the same content.      *)
(* Other people write meanwhile, and the form may be given something else   *)
(* to edit at any time.                                                     *)
(*                                                                         *)
(* A content is a name and a text; memories are related when either is the  *)
(* same.  Definitions marked "Faulty" are plausible bugs in the definition  *)
(* after them and not part of the specification.                           *)
(***************************************************************************)
EXTENDS Naturals

CONSTANTS
  Memories,
  Names, Wordings,
  None,
  MaxVersion,    \* bound: versions of a memory
  MaxContexts    \* bound: times the form is given something to edit

VARIABLES
  stored,     \* per memory: version and content; None before there is one, Deleted after
  item,       \* what is edited: a memory and its version, or a new one; None when it is closed
  context,    \* contextRevision
  form, reviewed, matches, target,
  save,       \* the save under way
  shown       \* history variable: what was shown as related to what, since the form was given item

page == <<item, context, form, reviewed, matches, target>>

vars == <<stored, page, save, shown>>

Contents == [name : Names, text : Wordings]

Version(m) == [id |-> m, version |-> stored[m].version]

Deleted == [version |-> 0]

Active == {m \in Memories : stored[m] \notin {None, Deleted}}

New == [version |-> 0]

Idle == save = None

Init ==
  /\ stored = [m \in Memories |-> None]
  /\ item = None /\ context = 0
  /\ form = None /\ reviewed = None /\ matches = {} /\ target = None
  /\ save = None /\ shown = {}

-----------------------------------------------------------------------------
(* The memories *)

(* The normalized names of active memories are unique. *)
NameTaken(content, by) == \E m \in Active \ {by} : stored[m].content.name = content.name

Put(m, content) ==
  stored' = [stored EXCEPT ![m] =
    [version |-> IF @ = None THEN 1 ELSE @.version + 1, content |-> content]]

MayGrow(m) == m \in Active => stored[m].version < MaxVersion   \* bound

(* Somebody else creates, changes or deletes a memory. *)
Elsewhere ==
  /\ \E m \in Memories :
       \/ \E c \in Contents :
            ~NameTaken(c, m) /\ stored[m] # Deleted /\ MayGrow(m) /\ Put(m, c)
       \/ m \in Active /\ stored' = [stored EXCEPT ![m] = Deleted]
  /\ UNCHANGED <<page, save, shown>>

(* relatedMemories *)
Related(content, exclude) ==
  {Version(m) : m \in {x \in Active \ {exclude} :
      stored[x].content.name = content.name \/ stored[x].content.text = content.text}}

-----------------------------------------------------------------------------
(* The form *)

(* It opens, or its properties change: another memory, another candidate,   *)
(* or the same one, read again.                                            *)
Given ==
  /\ context < MaxContexts
  /\ \/ \E m \in Active : item' = Version(m) /\ form' = stored[m].content
     \/ item' = New /\ form' \in Contents
  /\ context' = context + 1
  /\ reviewed' = None /\ matches' = {} /\ target' = None
  /\ shown' = {}
  /\ UNCHANGED <<stored, save>>

Usable == item # None /\ Idle

Edit ==
  /\ Usable
  /\ form' \in Contents \ {form}
  /\ reviewed' = None /\ matches' = {} /\ target' = None
  /\ UNCHANGED <<stored, item, context, save, shown>>

(* A related memory to replace, or none; a memory that is being changed is  *)
(* not turned into a new one, but another may be chosen.                   *)
Target ==
  /\ Usable
  /\ target' \in {t \in matches \cup {None} : t = None => item = New}
  /\ UNCHANGED <<stored, item, context, form, reviewed, matches, save, shown>>

(* save(), up to the first reply *)
Save ==
  /\ Usable
  /\ save' = [at |-> "asked", context |-> context, content |-> form,
              exclude |-> IF item = New THEN None ELSE item.id]
  /\ UNCHANGED <<stored, page, shown>>

(* The reply.  Nothing the form does meanwhile depends on the time at which  *)
(* the service has read the memories, so it reads them when it answers.     *)
Asked == save # None /\ save.at = "asked"

Found == Related(save.content, save.exclude)

(* Faulty: which memories were shown, but not in which version. *)
NamesOnly(content, found) == [content |-> content, found |-> {v.id : v \in found}]

Fingerprint(content, found) == [content |-> content, found |-> found]

SameForm(s) == s.context = context

Outdated ==
  /\ Asked /\ ~SameForm(save)
  /\ save' = None
  /\ UNCHANGED <<stored, page, shown>>

(* Related memories are shown, once for a content and those memories. *)
Review ==
  /\ Asked /\ SameForm(save)
  /\ Found # {} /\ reviewed # Fingerprint(save.content, Found)
  /\ matches' = Found
  /\ reviewed' = Fingerprint(save.content, Found)
  /\ shown' = shown \cup {[content |-> save.content, found |-> Found]}
  /\ save' = None
  /\ UNCHANGED <<stored, item, context, form, target>>

Replaces == IF target # None THEN target ELSE IF item = New THEN None ELSE item

Send ==
  /\ Asked /\ SameForm(save)
  /\ Found # {} => reviewed = Fingerprint(save.content, Found)
  /\ matches' = Found
  /\ save' = [at |-> "sent", content |-> save.content, memory |-> Replaces]
  /\ UNCHANGED <<stored, item, context, form, reviewed, target, shown>>

(* The service creates or changes, if the version is the expected one and   *)
(* the name is free; or it refuses, or does not answer.                     *)
Write ==
  /\ save # None /\ save.at = "sent"
  /\ IF save.memory = None
     THEN /\ ~NameTaken(save.content, None)
          /\ \E m \in {x \in Memories : stored[x] = None} : Put(m, save.content)
     ELSE /\ save.memory.id \in Active /\ Version(save.memory.id) = save.memory
          /\ MayGrow(save.memory.id)
          /\ ~NameTaken(save.content, save.memory.id)
          /\ Put(save.memory.id, save.content)
  /\ save' = [at |-> "written"]
  /\ UNCHANGED <<page, shown>>

(* saved: whoever holds the form closes it. *)
Saved ==
  /\ save # None /\ save.at = "written"
  /\ save' = None
  /\ item' = None
  /\ form' = None /\ reviewed' = None /\ matches' = {} /\ target' = None
  /\ shown' = {}
  /\ UNCHANGED <<stored, context>>

Fails ==
  /\ save # None
  /\ save' = None
  /\ reviewed' = None
  /\ UNCHANGED <<stored, item, context, form, matches, target, shown>>

Next ==
  \/ Elsewhere \/ Given \/ Edit \/ Target
  \/ Save \/ Outdated \/ Review \/ Send \/ Write \/ Saved \/ Fails

Spec == Init /\ [][Next]_vars

-----------------------------------------------------------------------------
(* Properties *)

(* The condition on a step that sends a save. *)
Reviews ==
  Send =>
    /\ Found # {} => [content |-> save.content, found |-> Found] \in shown
    /\ save'.memory \notin {item, None} =>
         \E x \in shown : x.content = save.content /\ save'.memory \in x.found
    /\ save.exclude = IF item = New THEN None ELSE item.id

(* What is written was reviewed: every related memory the service found     *)
(* last was shown beside this content, in the version found, since the form *)
(* was given what it edits; and what is replaced is that, or a memory in a  *)
(* version that was shown beside this content, not one chosen for another.  *)
WritesReviewed == [][Reviews]_vars
=============================================================================
