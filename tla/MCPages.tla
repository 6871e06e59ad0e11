------------------------------ MODULE MCPages ------------------------------
(***************************************************************************)
(* The pages of the web client and what they ask the API for, checked in   *)
(* one run.  The parts share no state: a behaviour is one of the part it   *)
(* begins with; the others stay as they are.                               *)
(***************************************************************************)
EXTENDS Naturals, Sequences

CONSTANT None

VARIABLE part

(* The blocks of an answer, and what the page makes of its events *)
CONSTANTS MaxRounds, MaxCalls, MaxTexts

VARIABLES blocks, pending, queue, view, stage, round, called, said, activity, title, clashed, stopped

answer ==
  <<blocks, pending, queue, view, stage, round, called, said, activity, title, clashed, stopped>>

B == INSTANCE Blocks

(* The rows of a result, page by page *)
CONSTANTS Artifacts, Limit, MaxRows, PageLoads

VARIABLES viewer, rowsOf, table, objects, current, reads, asked

paging == <<viewer, rowsOf, table, objects, current, reads, asked>>

P == INSTANCE Paging WITH MaxLoads <- PageLoads, shown <- table, loads <- reads

(* The form for a memory *)
CONSTANTS Memories, Names, Sayings, MaxVersion, MaxContexts

VARIABLES saved, item, context, form, reviewed, matches, target, save, related

editor == <<saved, item, context, form, reviewed, matches, target, save, related>>

M == INSTANCE MemoryEditor WITH Wordings <- Sayings, stored <- saved, shown <- related

(* The page of memories *)
CONSTANTS Datasources, Owned, Searches, MaxPages, MaxLoads, MaxReads

VARIABLES datasource, search, items, cursor, candidates, editing, viewing, deleting, history,
          epoch, waiting, lists, details, edits, deciding, busy

memories ==
  <<datasource, search, items, cursor, candidates, editing, viewing, deleting, history,
    epoch, waiting, lists, details, edits, deciding, busy>>

L == INSTANCE MemoriesPage WITH loading <- waiting, loads <- lists, reads <- details,
                                saving <- edits

(* Following the end of a conversation *)
CONSTANTS Heights, Views, Slack

VARIABLES height, window, top, following, intent, last, panel, scrolled, frame, tick, announced, reading

scrolling ==
  <<height, window, top, following, intent, last, panel, scrolled, frame, tick, announced, reading>>

F == INSTANCE Following WITH view <- window

(* Revealing text bit by bit *)
CONSTANTS Paragraphs, Sizes, Versions, Smooth, MaxStep

VARIABLES texts, streaming, animate, untick, rendered, animated, displayed, timers, playing

playback == <<texts, streaming, animate, untick, rendered, animated, displayed, timers, playing>>

Y == INSTANCE Playback WITH MaxTexts <- Paragraphs, MaxSize <- Sizes, shown <- displayed

(* The review of column comments *)
CONSTANTS Editors, Columns, Wordings

VARIABLES official, columns, suggested, ticked, request, wrote, seen

comments == <<official, columns, suggested, ticked, request, wrote, seen>>

C == INSTANCE Comments WITH Texts <- Wordings

(* Suggested questions *)
CONSTANTS Calls, MaxSchema

VARIABLES schema, stored, call, shown, loading, revision, saving, floor

suggestions == <<schema, stored, call, shown, loading, revision, saving, floor>>

G == INSTANCE Suggestions

(* Uploading a file *)
CONSTANTS Files, Digit, TableNames, Long, Params, SheetRows, Exact, Spacings, Widest

VARIABLES file, configs, parsing, permission, upload, ready, created, loaded

uploading == <<file, configs, parsing, permission, upload, ready, created, loaded>>

U == INSTANCE Upload WITH Names <- TableNames, MaxRows <- SheetRows, allowed <- permission,
                          request <- upload, prepared <- ready, stored <- loaded

Cell(k, n) == [kind |-> k, n |-> n]
Header(name, shape) == [clean |-> name, form |-> shape]
Sheet(header, data) == [header |-> header, rows |-> data]
Csv(sheet) == [kind |-> "csv", sheets |-> <<sheet>>]

(* One column with commas, zeros and text, or 34 halves (too many for a      *)
(* BIGINT) or 64 (for a double); two columns of one name, or one of no legal *)
(* name, with 18 halves, which are rounded; three, of which the last has the *)
(* new name of the second, the first row full or too short; too many rows;   *)
(* an Excel file of two sheets.                                              *)
MCFiles ==
  LET h == Header(<<"a">>, 1)
      text == Cell("text", 0)
      three == <<h, Header(<<"a">>, 2), Header(<<"a", 1>>, 1)>>
  IN {Csv(Sheet(<<h>>, <<<<x>>, <<Cell("grouped", 2)>>, <<Cell("padded", 2)>>>>)) :
        x \in {text, Cell("number", 34), Cell("number", 64)}}
     \cup {Csv(Sheet(<<h, x>>, <<<<text, Cell("grouped", 18)>>, <<Cell("number", 2)>>>>)) :
        x \in {h, Header(<<"9">>, 1)}}
     \cup {Csv(Sheet(three, <<<<text, text>>, <<text, text, text>>>>)),
           Csv(Sheet(three, <<<<text, text, text>>>>)),
           Csv(Sheet(<<h>>, <<<<text>>, <<text>>, <<text>>, <<text>>>>)),
           [kind |-> "excel", sheets |->
              <<Sheet(<<h>>, <<<<Cell("typed", 3)>>, <<Cell("typed", 2)>>>>),
                Sheet(<<h>>, <<<<Cell("typed", 3)>>, <<text>>>>)>>]}

(* NULL is nothing else, and sizes are numbers. *)
Kinds == {"blank", "text", "number", "grouped", "padded", "typed"}

ASSUME PagesAssumption ==
  /\ Limit \in Nat \ {0} /\ MaxRows \in Nat /\ "all" \in Searches
  /\ Heights \subseteq Nat /\ Views \subseteq Nat /\ Slack \in Nat
  /\ Paragraphs \in Nat /\ Sizes \in Nat /\ Versions # {}
  /\ Smooth \in Nat \ {0} /\ MaxStep \in Nat \ {0}
  /\ Params \in Nat /\ Exact \in Nat /\ Spacings \subseteq Nat \ {0} /\ MaxRounds \in Nat
  /\ \A f \in Files :
       /\ f.sheets = [i \in 1 .. Len(f.sheets) |-> f.sheets[i]] /\ Len(f.sheets) \in Nat
       /\ \A i \in DOMAIN f.sheets : f.sheets[i].rows \in Seq(Seq([kind : Kinds, n : Nat]))
  /\ None \notin [content : M!Contents, found : SUBSET [id : Memories, version : Nat]]

-----------------------------------------------------------------------------
Components ==
  {"blocks", "paging", "editor", "memories", "following", "playback",
   "comments", "suggestions", "uploading"}

(* The variables of a part that does not run *)

NoAnswer ==
  /\ blocks = None /\ pending = None /\ queue = None /\ view = None /\ stage = None
  /\ round = None /\ called = None /\ said = None /\ activity = None
  /\ title = None /\ clashed = None /\ stopped = None

NoPaging ==
  /\ viewer = None /\ rowsOf = None /\ table = None /\ objects = None /\ current = None
  /\ reads = None /\ asked = None

NoEditor ==
  /\ saved = None /\ item = None /\ context = None /\ form = None /\ reviewed = None
  /\ matches = None /\ target = None /\ save = None /\ related = None

NoMemories ==
  /\ datasource = None /\ search = None /\ items = None /\ cursor = None /\ candidates = None /\ editing = None
  /\ viewing = None /\ deleting = None /\ history = None /\ epoch = None /\ waiting = None
  /\ lists = None /\ details = None /\ edits = None /\ deciding = None /\ busy = None

NoScrolling ==
  /\ height = None /\ window = None /\ top = None /\ following = None /\ intent = None
  /\ last = None /\ panel = None /\ scrolled = None /\ frame = None /\ tick = None
  /\ announced = None
  /\ reading = None

NoPlayback ==
  /\ texts = None /\ streaming = None /\ animate = None /\ untick = None /\ rendered = None
  /\ animated = None /\ displayed = None /\ timers = None /\ playing = None

NoComments ==
  /\ official = None /\ columns = None /\ suggested = None /\ ticked = None /\ request = None
  /\ wrote = None /\ seen = None

NoSuggestions ==
  /\ schema = None /\ stored = None /\ call = None /\ shown = None /\ loading = None
  /\ revision = None /\ saving = None /\ floor = None

NoUploading ==
  /\ file = None /\ configs = None /\ parsing = None /\ permission = None /\ upload = None
  /\ ready = None /\ created = None /\ loaded = None

AllInit ==
  /\ part \in Components
  /\ IF part = "blocks" THEN B!Init ELSE NoAnswer
  /\ IF part = "paging" THEN P!Init ELSE NoPaging
  /\ IF part = "editor" THEN M!Init ELSE NoEditor
  /\ IF part = "memories" THEN L!Init ELSE NoMemories
  /\ IF part = "following" THEN F!Init ELSE NoScrolling
  /\ IF part = "playback" THEN Y!Init ELSE NoPlayback
  /\ IF part = "comments" THEN C!Init ELSE NoComments
  /\ IF part = "suggestions" THEN G!Init ELSE NoSuggestions
  /\ IF part = "uploading" THEN U!Init ELSE NoUploading

(* Only part p takes a step. *)
Only(p) ==
  /\ part = p /\ UNCHANGED part
  /\ p # "blocks" => UNCHANGED answer
  /\ p # "paging" => UNCHANGED paging
  /\ p # "editor" => UNCHANGED editor
  /\ p # "memories" => UNCHANGED memories
  /\ p # "following" => UNCHANGED scrolling
  /\ p # "playback" => UNCHANGED playback
  /\ p # "comments" => UNCHANGED comments
  /\ p # "suggestions" => UNCHANGED suggestions
  /\ p # "uploading" => UNCHANGED uploading

AllNext ==
  \/ Only("blocks") /\ B!Next
  \/ Only("paging") /\ P!Next
  \/ Only("editor") /\ M!Next
  \/ Only("memories") /\ L!Next
  \/ Only("following") /\ F!Next
  \/ Only("playback") /\ Y!Next
  \/ Only("comments") /\ C!Next
  \/ Only("suggestions") /\ G!Next
  \/ Only("uploading") /\ U!Next

all ==
  <<part, answer, paging, editor, memories,
    scrolling, playback, comments, suggestions, uploading>>

AllSpec == AllInit /\ [][AllNext]_all

-----------------------------------------------------------------------------
(* The properties, each stated in its module. *)

(* Replaying the events gives the stored blocks, up to an error at the end   *)
(* and to logs whose title a query took, and no activity goes on after it.  *)
BlocksReplay == part = "blocks" => B!ReplayGivesBlocks /\ B!ActivitiesSettle

(* The pages of one result, in order. *)
PagesFollow == part = "paging" => P!PagesFollow

(* Only what the user has reviewed is written. *)
WritesReviewed == [][part = "editor" => M!Reviews]_editor

(* What the page shows is of its datasource, each memory once. *)
PageIsOfDatasource == part = "memories" => L!PageIsOfDatasource

(* A reader who scrolled up, as far as the list can tell, keeps his place. *)
KeepsPlace == part = "following" => F!KeepsPlace

(* Whatever is not shown in full plays, and goes on. *)
PlaysOut == part = "playback" => Y!PlaysOut

(* Nobody overwrites a comment unseen. *)
CommentsReviewed == part = "comments" => C!CommentsReviewed

(* A tab shows questions of the schema it last saved. *)
ShownAreCurrent == part = "suggestions" => G!ShownAreCurrent

(* An upload keeps the file, but for the losses that Holds and Says name. *)
UploadKeepsFile == part = "uploading" => U!UploadKeepsFile
=============================================================================
