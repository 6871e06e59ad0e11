------------------------------- MODULE Memory -------------------------------
(***************************************************************************)
(* The long-term memory of a datasource: items with numbered revisions, and *)
(* candidates which answers propose and the owner accepts or rejects.       *)
(*                                                                         *)
(* Every call is a transaction at READ COMMITTED.  What it reads without a  *)
(* lock may be old by the time it writes, so a call has a reading step and  *)
(* a writing step; locks of a row last from its check to the commit, which  *)
(* makes the writing step one.  Calls that authorize() refuses change       *)
(* nothing.  Definitions marked "Faulty" are plausible bugs in the          *)
(* definition after them and not part of the specification.                 *)
(***************************************************************************)
EXTENDS Naturals, Sequences

CONSTANTS
  Items,        \* rows of datasource_memory, present and future
  Candidates,   \* rows of datasource_memory_candidate
  Callers,      \* requests under way
  Messages,     \* questions that ask to remember something
  Names, Texts, \* what an item may say
  None,
  MaxVersion    \* bound: revisions of an item

VARIABLES
  status,      \* of an item: "absent", "active" or "deleted"
  revisions,   \* its revisions; the version is how many there are
  candidates,  \* what was proposed, and what became of it
  completed,   \* candidates whose generation has completed
  calls        \* what a caller has read

vars == <<status, revisions, candidates, completed, calls>>

Fields == {"name", "text"}

Contents == [name : Names, text : Texts]

Version(i) == Len(revisions[i])

Latest(i) == revisions[i][Version(i)].content

(* A proposal is for an item in a given version, or for a new one (0). *)
Proposals == [item : Items \cup {None}, expected : 0..MaxVersion]

Candidate(p) == [proposal |-> p, status |-> "pending", version |-> 1, result |-> None]

Init ==
  /\ status = [i \in Items |-> "absent"]
  /\ revisions = [i \in Items |-> <<>>]
  /\ candidates = [c \in Candidates |-> None]
  /\ completed = {}
  /\ calls = [x \in Callers |-> None]

-----------------------------------------------------------------------------
(* save: the only writer of items *)

(* The unique index on the names of active items. *)
NameFree(i, content) == \A j \in Items \ {i} : status[j] = "active" => Latest(j).name # content.name

(* Faulty: the version is compared with what was read before the lock. *)
UnchangedSinceRead(i, expected, read) == status[i] = "active" /\ read = expected

(* The version under the lock is the one the caller wants to change. *)
Unchanged(i, expected, read) == status[i] = "active" /\ Version(i) = expected

(* A revision remembers, for the properties, which fields its author named  *)
(* and the candidate it came from.                                         *)
Save(i, content, named, from, kept) ==
  /\ Version(i) < MaxVersion
  /\ kept = "active" => NameFree(i, content)
  /\ status' = [status EXCEPT ![i] = kept]
  /\ revisions' = [revisions EXCEPT ![i] = Append(@, [content |-> content, named |-> named, from |-> from])]

(* INSERT: the id is new. *)
Insert(i, content, from) ==
  /\ status[i] = "absent"
  /\ Save(i, content, Fields, from, "active")

-----------------------------------------------------------------------------
(* create, update, remove, and what a question asks to remember *)

Create(i) ==
  /\ \E content \in Contents : Insert(i, content, None)
  /\ UNCHANGED <<candidates, completed, calls>>

(* update reads the current revision and lays the named fields over it. *)
Read(x, i, expected) ==
  /\ calls[x] = None /\ status[i] # "absent" /\ expected \in 1..Version(i)
  /\ \E content \in Contents, named \in SUBSET Fields, deleted \in BOOLEAN :
       /\ deleted => named = {}
       /\ \A f \in Fields \ named : content[f] = Latest(i)[f]
       /\ calls' = [calls EXCEPT ![x] = [item |-> i, expected |-> expected, read |-> Version(i),
                                         named |-> named, deleted |-> deleted, content |-> content]]
  /\ UNCHANGED <<status, revisions, candidates, completed>>

Update(x) ==
  /\ calls[x] # None /\ calls[x].item # None
  /\ LET call == calls[x] IN
     /\ Unchanged(call.item, call.expected, call.read)
     /\ Save(call.item, call.content, call.named, None, IF call.deleted THEN "deleted" ELSE "active")
  /\ calls' = [calls EXCEPT ![x] = None]
  /\ UNCHANGED <<candidates, completed>>

(* rememberFromConversation looks for a revision that already came from the  *)
(* message, and for active items that say the same or something similar.   *)
Remember(x, m) ==
  /\ calls[x] = None
  /\ \A i \in Items, n \in 1..MaxVersion : n <= Version(i) => revisions[i][n].from # m
  /\ \E content \in Contents :
       /\ \A i \in Items : status[i] = "active" =>
            Latest(i).name # content.name /\ Latest(i).text # content.text
       /\ calls' = [calls EXCEPT ![x] = [item |-> None, message |-> m, content |-> content]]
  /\ UNCHANGED <<status, revisions, candidates, completed>>

Remembered(x, i) ==
  /\ calls[x] # None /\ calls[x].item = None
  /\ Insert(i, calls[x].content, calls[x].message)
  /\ calls' = [calls EXCEPT ![x] = None]
  /\ UNCHANGED <<candidates, completed>>

(* 409, a dead process, a lost connection: nothing is written. *)
Refuse(x) ==
  /\ calls[x] # None
  /\ calls' = [calls EXCEPT ![x] = None]
  /\ UNCHANGED <<status, revisions, candidates, completed>>

-----------------------------------------------------------------------------
(* propose and decide *)

Propose(c, p) ==
  /\ candidates[c] = None
  /\ IF p.item = None THEN p.expected = 0 ELSE status[p.item] = "active" /\ p.expected = Version(p.item)
  /\ candidates' = [candidates EXCEPT ![c] = Candidate(p)]
  /\ UNCHANGED <<status, revisions, completed, calls>>

CompleteGeneration(c) ==
  /\ candidates[c] # None
  /\ completed' = completed \cup {c}
  /\ UNCHANGED <<status, revisions, candidates, calls>>

(* The conversation is deleted and takes its candidates along; what was     *)
(* saved of them stays.  The place is not used again.                       *)
Lose(c) ==
  /\ candidates[c] # None /\ candidates[c].status # "lost"
  /\ candidates' = [candidates EXCEPT ![c].status = "lost"]
  /\ UNCHANGED <<status, revisions, completed, calls>>

Undecided(c, expected) == candidates[c].status = "pending" /\ candidates[c].version = expected

Visible(c) == candidates[c] # None /\ c \in completed /\ candidates[c].status # "lost"

Decided(c, verdict, result) ==
  candidates' = [candidates EXCEPT ![c] = [candidates[c] EXCEPT !.status = verdict, !.version = @ + 1, !.result = result]]

(* The owner may edit the content, so it may be any, and may choose another  *)
(* item to replace.  A repeated verdict is answered from the row and changes *)
(* nothing.                                                                *)
Accept(c, expected, content, i, version) ==
  /\ Undecided(c, expected)
  /\ IF version = 0 THEN Insert(i, content, c)
     ELSE /\ Unchanged(i, version, version)
          /\ Save(i, content, Fields, c, "active")
  /\ Decided(c, "accepted", <<i, Version(i) + 1>>)
  /\ UNCHANGED <<completed, calls>>

Reject(c, expected) ==
  /\ Undecided(c, expected)
  /\ Decided(c, "rejected", None)
  /\ UNCHANGED <<status, revisions, completed, calls>>

(* Without a choice of its own an edit keeps the candidate's target. *)
Decide(c) ==
  Visible(c) /\ \E expected \in 1..2 :
    \/ Reject(c, expected)
    \/ \E content \in Contents, i \in Items, version \in 0..MaxVersion :
         /\ version = 0 => candidates[c].proposal.expected = 0
         /\ Accept(c, expected, content, i, version)

Next ==
  \/ \E i \in Items : Create(i)
  \/ \E x \in Callers, i \in Items, e \in 1..MaxVersion : Read(x, i, e)
  \/ \E x \in Callers, m \in Messages : Remember(x, m)
  \/ \E x \in Callers, i \in Items : Remembered(x, i)
  \/ \E x \in Callers : Update(x) \/ Refuse(x)
  \/ \E c \in Candidates, p \in Proposals : Propose(c, p)
  \/ \E c \in Candidates : CompleteGeneration(c) \/ Lose(c)
  \/ \E c \in Candidates : Decide(c)

Spec == Init /\ [][Next]_vars

-----------------------------------------------------------------------------
(* Properties *)

(* A revision leaves what its author did not name as the revision before it *)
(* had it, although the author's copy was read outside the lock.            *)
NoLostUpdate ==
  \A i \in Items, n \in 2..MaxVersion : n <= Version(i) =>
    \A f \in Fields \ revisions[i][n].named :
      revisions[i][n].content[f] = revisions[i][n - 1].content[f]

(* However often and by whomever a candidate is decided, it makes at most   *)
(* one revision, the one it names as its result, and none if it is rejected.*)
DecidedOnce ==
  \A c \in Candidates :
    /\ \A i \in Items, n \in 1..MaxVersion :
         n <= Version(i) /\ revisions[i][n].from = c => candidates[c].result = <<i, n>>
    /\ candidates[c] # None /\ candidates[c].status = "rejected" => candidates[c].result = None
=============================================================================
