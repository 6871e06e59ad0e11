---------------------------- MODULE ServicesProofs --------------------------
(***************************************************************************)
(* Safety of the services, for every value of their constants.             *)
(***************************************************************************)
EXTENDS MCServices, SequenceTheorems, FiniteSetTheorems, WellFoundedInduction, TLAPS

(* A step is one of the part that runs. *)
LEMMA PartStep ==
  ASSUME [AllNext]_all
  PROVE  /\ UNCHANGED part
         /\ part = "account" => A!Next \/ UNCHANGED account
         /\ part = "sources" => S!Next \/ UNCHANGED sources
         /\ part = "migration" => B!Next \/ UNCHANGED migration
         /\ part = "pool" => P!Next \/ UNCHANGED pool
         /\ part = "evidence" => E!Next \/ UNCHANGED evidence
         /\ part = "memory" => M!Next \/ UNCHANGED memory
         /\ part = "structure" => D!Next \/ UNCHANGED structure
         /\ part = "results" => R!Next \/ UNCHANGED results
         /\ part = "turns" => T!Next \/ UNCHANGED turns
         /\ part = "context" => X!Next \/ UNCHANGED context
BY DEF AllNext, Only, all

-----------------------------------------------------------------------------
(* Accounts *)

Acts == [what : {"login", "change", "reset"}, at : {"asked", "locked", "written"}, knows : Nat, marks : SUBSET Nat]

(* Who has written holds the lock, was justified by the secret in force,    *)
(* and will mark every link that is not used up.                           *)
AccountKept ==
  /\ secret \in Nat
  /\ links \in Seq({"fresh", "used", "expired"}) /\ issued \in Seq(Nat) /\ Len(issued) = Len(links)
  /\ proofs \in Seq(Nat) /\ Len(proofs) = secret
  /\ acts \in [Clients -> {None} \cup Acts]
  /\ \A n \in 1..secret : proofs[n] = n - 1
  /\ \A l \in 1..Len(links) : links[l] = "fresh" => issued[l] = secret
  /\ \A x \in Clients : acts[x] # None =>
       /\ acts[x].what = "reset" => acts[x].knows \in 1..Len(links)
       /\ acts[x].at # "asked" => rowLock = x
       /\ acts[x].at = "written" =>
            /\ acts[x].what \in {"change", "reset"} /\ A!Proof(acts[x]) = secret
            /\ acts[x].marks = {l \in 1..Len(links) : links[l] # "used"}

LEMMA AccountInit ==
  ASSUME A!Init
  PROVE  AccountKept
BY DEF A!Init, AccountKept

LEMMA AccountStep ==
  ASSUME AccountKept, A!Next
  PROVE  AccountKept'
<1>0. A!Links = 1..Len(links) /\ Len(links) \in Nat
  BY DEF A!Links, AccountKept
<1>1. ASSUME NEW x \in Clients, A!Login(x) PROVE AccountKept'
  BY <1>1 DEF AccountKept, A!Login, A!Starts, A!Proof, Acts
<1>2. ASSUME NEW x \in Clients, A!Sign(x) PROVE AccountKept'
  BY <1>2 DEF AccountKept, A!Sign, A!Ends, A!Proof
<1>3. CASE A!MailLink
  <2>1. /\ links' \in Seq({"fresh", "used", "expired"}) /\ Len(links') = Len(links) + 1
        /\ \A l \in 1..Len(links) : links'[l] = links[l]
        /\ links'[Len(links) + 1] = "fresh"
    BY <1>3, AppendProperties DEF AccountKept, A!MailLink
  <2>2. /\ issued' \in Seq(Nat) /\ Len(issued') = Len(links) + 1
        /\ \A l \in 1..Len(links) : issued'[l] = issued[l]
        /\ issued'[Len(links) + 1] = secret
    BY <1>3, AppendProperties DEF AccountKept, A!MailLink
  <2>3. \A x \in Clients : acts[x] # None => acts[x].at = "asked"
    BY <1>3, ServicesAssumption DEF AccountKept, Acts, A!MailLink, A!RowFree
  <2>4. UNCHANGED <<secret, sessions, rowLock, acts, proofs>>
    BY <1>3 DEF A!MailLink
  <2>5. \A l \in 1..Len(links') : links'[l] = "fresh" => issued'[l] = secret
    <3>1. \A l \in 1..Len(links') : l \in 1..Len(links) \/ l = Len(links) + 1
      BY <1>0, <2>1
    <3> QED BY <2>1, <2>2, <3>1 DEF AccountKept
  <2>6. \A x \in Clients : acts[x] # None /\ acts[x].what = "reset" => acts[x].knows \in 1..Len(links')
    BY <1>0, <2>1 DEF AccountKept
  <2> QED BY <2>1, <2>2, <2>3, <2>4, <2>5, <2>6 DEF AccountKept
<1>4. ASSUME NEW l \in A!Links, A!Expire(l) PROVE AccountKept'
  BY <1>0, <1>4 DEF AccountKept, A!Expire, A!Proof
<1>5. ASSUME NEW x \in Clients, NEW p \in 0..MaxChanges, A!AskChange(x, p) PROVE AccountKept'
  BY <1>5 DEF AccountKept, A!AskChange, A!Starts, A!Proof, Acts
<1>6. ASSUME NEW x \in Clients, NEW l \in A!Links, A!AskReset(x, l) PROVE AccountKept'
  BY <1>0, <1>6 DEF AccountKept, A!AskReset, A!Starts, A!Proof, Acts
<1>7. ASSUME NEW x \in Clients, A!LockRow(x) PROVE AccountKept'
  <2>1. acts[x] # None /\ acts[x] \in Acts /\ acts[x].at = "asked" /\ rowLock = None /\ rowLock' = x
        /\ UNCHANGED <<secret, links, issued, sessions, proofs>>
    BY <1>7 DEF AccountKept, A!LockRow, A!Doing, A!RowFree
  <2>2. acts' = [acts EXCEPT ![x] = [acts[x] EXCEPT !.at = "locked"]]
    BY <1>7 DEF AccountKept, A!LockRow
  <2> DEFINE act == [acts[x] EXCEPT !.at = "locked"]
  <2>3. act \in Acts /\ act.at = "locked" /\ act.what = acts[x].what /\ act.knows = acts[x].knows
    BY <2>1 DEF Acts
  <2> HIDE DEF act
  <2>4. acts' \in [Clients -> {None} \cup Acts] /\ \A y \in Clients : acts'[y] = IF y = x THEN act ELSE acts[y]
    BY <2>2, <2>3 DEF AccountKept, act
  <2>5. \A y \in Clients : acts[y] # None => acts[y].at = "asked"
    BY <2>1, ServicesAssumption DEF AccountKept, Acts
  <2> QED BY <2>1, <2>3, <2>4, <2>5 DEF AccountKept
<1>8. ASSUME NEW x \in Clients, A!Write(x) PROVE AccountKept'
  <2> DEFINE marks == {l \in 1..Len(links) : links[l] # "used"}
             act == [acts[x] EXCEPT !.at = "written", !.marks = marks]
  <2>1. /\ acts[x] # None /\ acts[x] \in Acts /\ acts[x].at = "locked" /\ acts[x].what \in {"change", "reset"}
        /\ A!Justified(x) /\ UNCHANGED <<secret, links, issued, sessions, rowLock, proofs>>
    BY <1>8 DEF AccountKept, A!Write, A!Doing
  <2>2. acts' = [acts EXCEPT ![x] = act]
    BY <1>0, <1>8 DEF AccountKept, A!Write
  <2>3. /\ act \in Acts /\ act.at = "written" /\ act.what = acts[x].what /\ act.knows = acts[x].knows
        /\ act.marks = {l \in 1..Len(links) : links[l] # "used"}
    <3>1. marks \in SUBSET Nat
      BY <1>0
    <3> HIDE DEF marks
    <3>2. act \in Acts /\ act.at = "written" /\ act.what = acts[x].what /\ act.knows = acts[x].knows /\ act.marks = marks
      BY <2>1, <3>1 DEF Acts
    <3> QED BY <3>2 DEF marks
  <2>4. A!Proof(act) = secret
    <3>1. CASE acts[x].what = "change"
      BY <2>1, <2>3, <3>1 DEF A!Proof, A!Justified
    <3>2. CASE acts[x].what # "change"
      <4>1. links[acts[x].knows] = "fresh" /\ acts[x].knows \in 1..Len(links)
        BY <2>1, <3>2 DEF AccountKept, A!Justified
      <4> QED BY <2>3, <3>2, <4>1 DEF AccountKept, A!Proof
    <3> QED BY <3>1, <3>2
  <2> HIDE DEF act
  <2>5. acts' \in [Clients -> {None} \cup Acts] /\ \A y \in Clients : acts'[y] = IF y = x THEN act ELSE acts[y]
    BY <2>2, <2>3 DEF AccountKept
  <2>6. rowLock = x
    BY <2>1 DEF AccountKept
  <2> QED BY <2>1, <2>3, <2>4, <2>5, <2>6 DEF AccountKept, A!Proof
<1>9. ASSUME NEW x \in Clients, A!Commit(x) PROVE AccountKept'
  <2>1. /\ acts[x] # None /\ acts[x] \in Acts /\ acts[x].at = "written" /\ rowLock = x
        /\ A!Proof(acts[x]) = secret /\ acts[x].marks = {l \in 1..Len(links) : links[l] # "used"}
    BY <1>9 DEF AccountKept, A!Commit, A!Doing
  <2>2. secret' = secret + 1 /\ secret \in Nat /\ UNCHANGED issued
    BY <1>9 DEF AccountKept, A!Commit
  <2>3. links' = [l \in 1..Len(links) |-> IF links[l] # "used" THEN "used" ELSE links[l]]
    BY <1>0, <1>9, <2>1 DEF A!Commit
  <2>4. links' = [l \in 1..Len(links) |-> "used"]
    BY <2>3
  <2>5. links' \in Seq({"fresh", "used", "expired"}) /\ Len(links') = Len(links)
        /\ \A l \in 1..Len(links) : links'[l] = "used"
    BY <1>0, <2>4
  <2>6. /\ proofs' \in Seq(Nat) /\ Len(proofs') = secret'
        /\ \A n \in 1..secret : proofs'[n] = proofs[n]
        /\ proofs'[secret + 1] = secret
    BY <1>9, <2>1, <2>2, AppendProperties DEF AccountKept, A!Commit
  <2>7. acts' \in [Clients -> {None} \cup Acts] /\ \A y \in Clients : acts'[y] = IF y = x THEN None ELSE acts[y]
    BY <1>9 DEF AccountKept, A!Commit, A!Ends
  <2>8. \A y \in Clients : y # x /\ acts[y] # None => acts[y].at = "asked"
    BY <2>1 DEF AccountKept
  <2>9. \A n \in 1..secret' : proofs'[n] = n - 1
    <3>1. \A n \in 1..secret' : n \in 1..secret \/ n = secret + 1
      BY <2>2
    <3>2. \A n \in 1..secret : proofs'[n] = n - 1
      BY <2>6 DEF AccountKept
    <3>3. proofs'[secret + 1] = (secret + 1) - 1
      BY <2>2, <2>6
    <3> QED BY <3>1, <3>2, <3>3
  <2>10. issued' \in Seq(Nat) /\ Len(issued') = Len(links') /\ secret' \in Nat
    BY <2>2, <2>5 DEF AccountKept
  <2>11. \A y \in Clients : acts'[y] # None =>
           /\ acts'[y].at = "asked"
           /\ acts'[y].what = "reset" => acts'[y].knows \in 1..Len(links')
    BY <2>5, <2>7, <2>8 DEF AccountKept
  <2>12. \A l \in 1..Len(links') : links'[l] # "fresh"
    BY <2>5
  <2> QED BY <2>5, <2>6, <2>7, <2>9, <2>10, <2>11, <2>12 DEF AccountKept
<1>10. ASSUME NEW x \in Clients, A!Fail(x) PROVE AccountKept'
  BY <1>10 DEF AccountKept, A!Fail, A!Unlocked, A!Ends, A!Proof, Acts
<1> QED BY <1>1, <1>2, <1>3, <1>4, <1>5, <1>6, <1>7, <1>8, <1>9, <1>10 DEF A!Next

(* Every change of a password was justified by the secret it replaced, and  *)
(* no reset link mailed under an older one can be used, for any number of   *)
(* callers of AuthService, changes and links.                               *)
THEOREM SecretsDie == AllSpec => []OldSecretsAreDead
<1>1. AllInit => (part = "account" => AccountKept)
  BY AccountInit DEF AllInit
<1>2. (part = "account" => AccountKept) /\ [AllNext]_all => (part = "account" => AccountKept)'
  <2>1. AccountKept /\ UNCHANGED account => AccountKept'
    BY DEF AccountKept, account, A!Proof
  <2> QED BY <2>1, PartStep, AccountStep
<1>3. (part = "account" => AccountKept) => OldSecretsAreDead
  BY DEF AccountKept, OldSecretsAreDead, A!OldSecretsAreDead, A!Links
<1> QED BY <1>1, <1>2, <1>3, PTL DEF AllSpec
-----------------------------------------------------------------------------
(* Sources *)

Transactions ==
  [kind : {"upload", "delete", "edit", "remove"}, table : Tables, locks : 0..2, listed : SUBSET Tables,
   at : {"locking", "writing"}]

(* What a transaction has locked, and that it is there. *)
HasLocks(x) ==
  /\ tx[x].kind # "edit" /\ tx[x].locks # 0 => holder[Datasource] = x /\ exists
  /\ tx[x].kind = "delete" /\ tx[x].locks = 2 => holder[tx[x].table] = x /\ tx[x].table \in catalog
  /\ tx[x].kind = "edit" /\ tx[x].locks # 0 => holder[tx[x].table] = x /\ tx[x].table \in catalog
  /\ tx[x].kind = "edit" /\ tx[x].locks = 2 => holder[Datasource] = x /\ exists

Needed(kind) == IF kind \in {"delete", "edit"} THEN 2 ELSE 1

(* Whoever writes has all its locks, and a removal that writes has listed    *)
(* the tables there are.                                                    *)
TablesKept ==
  /\ exists \in BOOLEAN /\ catalog \subseteq Tables /\ physical = catalog
  /\ holder \in [S!Rows -> Sessions \cup {None}]
  /\ tx \in [Sessions -> {None} \cup Transactions]
  /\ ~exists => catalog = {}
  /\ \A x \in Sessions : tx[x] # None =>
       /\ HasLocks(x)
       /\ tx[x].locks <= Needed(tx[x].kind)
       /\ tx[x].at = "writing" => tx[x].locks = Needed(tx[x].kind)
       /\ tx[x].at = "writing" /\ tx[x].kind = "remove" => tx[x].listed = catalog

LEMMA TablesInit ==
  ASSUME S!Init
  PROVE  TablesKept
BY DEF S!Init, TablesKept

LEMMA TablesStep ==
  ASSUME TablesKept, S!Next
  PROVE  TablesKept'
<1>0. Datasource \in S!Rows /\ Tables \subseteq S!Rows /\ Datasource \notin Tables /\ None \notin Sessions
  BY ServicesAssumption DEF S!Rows
<1>1. ASSUME NEW x \in Sessions, NEW kind \in {"upload", "delete", "edit", "remove"}, NEW t \in Tables, S!Begin(x, kind, t)
      PROVE  TablesKept'
  BY <1>0, <1>1 DEF TablesKept, S!Begin, Transactions, HasLocks, Needed
<1>2. ASSUME NEW x \in Sessions, S!Lock(x) PROVE TablesKept'
  <2> DEFINE act == [tx[x] EXCEPT !.locks = @ + 1]
             row == S!NextRow(x)
  <2>1. /\ tx[x] # None /\ tx[x] \in Transactions /\ tx[x].at = "locking" /\ tx[x].locks < Needed(tx[x].kind)
        /\ HasLocks(x) /\ UNCHANGED <<exists, catalog, physical>>
    BY <1>2 DEF TablesKept, S!Lock, S!Locking, Needed
  <2>2. act \in Transactions /\ act.locks = tx[x].locks + 1 /\ act.kind = tx[x].kind /\ act.table = tx[x].table
        /\ act.at = "locking"
    BY <2>1 DEF Transactions, Needed
  <2>3. row = IF tx[x].kind = "edit" THEN IF tx[x].locks = 0 THEN tx[x].table ELSE Datasource
              ELSE IF tx[x].locks = 0 THEN Datasource ELSE tx[x].table
    <3>1. CASE tx[x].locks = 0
      BY <2>1, <3>1 DEF S!NextRow, S!Order, Transactions
    <3>2. CASE tx[x].locks = 1 /\ tx[x].kind \in {"delete", "edit"}
      BY <3>2 DEF S!NextRow, S!Order
    <3> QED BY <2>1, <3>1, <3>2 DEF Transactions, Needed
  <2>4. holder[row] = None /\ S!IsThere(row) /\ holder' = [holder EXCEPT ![row] = x] /\ tx' = [tx EXCEPT ![x] = act]
    BY <1>2 DEF S!Lock, TablesKept
  <2> HIDE DEF act, row
  <2>5. row \in S!Rows
    BY <1>0, <2>1, <2>3 DEF Transactions
  <2>6. /\ holder' \in [S!Rows -> Sessions \cup {None}]
        /\ \A r \in S!Rows : holder'[r] = IF r = row THEN x ELSE holder[r]
    BY <2>4, <2>5 DEF TablesKept
  <2>7. /\ tx' \in [Sessions -> {None} \cup Transactions]
        /\ \A y \in Sessions : tx'[y] = IF y = x THEN act ELSE tx[y]
    BY <2>2, <2>4 DEF TablesKept
  <2>8. HasLocks(x)'
    BY <1>0, <2>1, <2>2, <2>3, <2>4, <2>6, <2>7 DEF HasLocks, S!IsThere, Transactions, Needed
  <2>9. ASSUME NEW y \in Sessions, y # x, tx[y] # None PROVE HasLocks(y)'
    <3>1. HasLocks(y) /\ tx[y] \in Transactions /\ tx'[y] = tx[y]
      BY <2>7, <2>9 DEF TablesKept
    <3>2. \A r \in S!Rows : holder[r] = y => holder'[r] = y
      BY <1>0, <2>4, <2>6
    <3>3. tx[y].table \in S!Rows
      BY <1>0, <3>1 DEF Transactions
    <3> QED BY <1>0, <2>1, <3>1, <3>2, <3>3 DEF HasLocks
  <2> QED BY <2>1, <2>2, <2>6, <2>7, <2>8, <2>9 DEF TablesKept, Transactions, Needed
<1>3. ASSUME NEW x \in Sessions, S!Abort(x) PROVE TablesKept'
  BY <1>0, <1>3 DEF TablesKept, S!Abort, S!Free, Transactions, HasLocks, Needed
<1>4. ASSUME NEW x \in Sessions, S!Work(x) PROVE TablesKept'
  <2> DEFINE act == [tx[x] EXCEPT !.listed = catalog, !.at = "writing"]
  <2>1. /\ tx[x] # None /\ tx[x] \in Transactions /\ tx[x].locks = Needed(tx[x].kind)
        /\ UNCHANGED <<exists, catalog, physical, holder>> /\ tx' = [tx EXCEPT ![x] = act]
    BY <1>4 DEF TablesKept, S!Work, S!Locking, S!Listed, Needed, Transactions
  <2>2. act \in Transactions /\ act.locks = tx[x].locks /\ act.kind = tx[x].kind /\ act.table = tx[x].table
        /\ act.listed = catalog
    BY <2>1 DEF TablesKept, Transactions
  <2> HIDE DEF act
  <2>3. /\ tx' \in [Sessions -> {None} \cup Transactions]
        /\ \A y \in Sessions : tx'[y] = IF y = x THEN act ELSE tx[y]
    BY <2>1, <2>2 DEF TablesKept
  <2> QED BY <2>1, <2>2, <2>3 DEF TablesKept, HasLocks, Needed
<1>5. ASSUME NEW x \in Sessions, S!CommitUpload(x) PROVE TablesKept'
  BY <1>0, <1>5 DEF TablesKept, S!CommitUpload, S!Commits, S!Free, Transactions, HasLocks, Needed
<1>6. ASSUME NEW x \in Sessions, S!CommitDelete(x) PROVE TablesKept'
  BY <1>0, <1>6 DEF TablesKept, S!CommitDelete, S!Commits, S!Free, Transactions, HasLocks, Needed
<1>7. ASSUME NEW x \in Sessions, S!CommitEdit(x) PROVE TablesKept'
  BY <1>0, <1>7 DEF TablesKept, S!CommitEdit, S!Commits, S!Free, Transactions, HasLocks, Needed
<1>8. ASSUME NEW x \in Sessions, S!CommitRemove(x) PROVE TablesKept'
  <2>1. /\ tx[x] # None /\ tx[x].kind = "remove" /\ holder[Datasource] = x /\ tx[x].listed = catalog
        /\ exists' = FALSE /\ catalog' = {} /\ physical' = {}
    BY <1>8 DEF TablesKept, S!CommitRemove, S!Commits, HasLocks, Needed
  <2>2. /\ tx' \in [Sessions -> {None} \cup Transactions]
        /\ \A y \in Sessions : tx'[y] = IF y = x THEN None ELSE tx[y]
    BY <1>8 DEF TablesKept, S!CommitRemove, S!Commits
  <2>3. /\ holder' \in [S!Rows -> Sessions \cup {None}]
        /\ \A r \in S!Rows : holder'[r] = IF holder[r] = x THEN None ELSE holder[r]
    BY <1>8 DEF TablesKept, S!CommitRemove, S!Commits, S!Free
  <2>4. ASSUME NEW y \in Sessions, y # x, tx[y] # None
        PROVE  /\ tx[y].locks = 0 /\ tx[y].at # "writing" /\ HasLocks(y)'
    <3>1. tx[y] \in Transactions /\ HasLocks(y) /\ (tx[y].at = "writing" => tx[y].locks = Needed(tx[y].kind))
      BY <2>4 DEF TablesKept
    <3>2. holder[Datasource] # y /\ (tx[y].table \in catalog => holder[tx[y].table] # y)
      BY <1>0, <1>8, <2>1, <2>4 DEF S!CommitRemove
    <3>3. tx[y].locks = 0
      BY <3>1, <3>2 DEF HasLocks
    <3> QED BY <2>2, <2>4, <3>1, <3>3 DEF HasLocks, Needed
  <2> QED BY <2>1, <2>2, <2>3, <2>4 DEF TablesKept
<1> QED BY <1>1, <1>2, <1>3, <1>4, <1>5, <1>6, <1>7, <1>8 DEF S!Next

(* A local table exists exactly as long as the catalog has it, and is never *)
(* commented on when it is gone, for any number of transactions of the      *)
(* datasource service and any tables.                                       *)
THEOREM TablesStay == AllSpec => []TablesCatalogued
<1>1. AllInit => (part = "sources" => TablesKept)
  BY TablesInit DEF AllInit
<1>2. (part = "sources" => TablesKept) /\ [AllNext]_all => (part = "sources" => TablesKept)'
  <2>1. TablesKept /\ UNCHANGED sources => TablesKept'
    BY DEF TablesKept, sources, HasLocks
  <2> QED BY <2>1, PartStep, TablesStep
<1>3. (part = "sources" => TablesKept) => TablesCatalogued
  BY DEF TablesKept, TablesCatalogued, S!TablesCatalogued, HasLocks, Needed, Transactions
<1> QED BY <1>1, <1>2, <1>3, PTL DEF AllSpec
-----------------------------------------------------------------------------
(* Migration *)

Shapes == {"none", "lacking", "odd", "current"}

(* A reset that has got all its locks keeps new answers out, and one that    *)
(* has looked has seen none unfinished.                                     *)
MigrationKept ==
  /\ shape \in [B!Kinds -> Shapes]
  /\ place # "idle" => work \in [B!Kinds -> Shapes]
  /\ answer \in [Askers -> {"none", "read", "written", "active", "settled", "dropped"}]
  /\ place = "plain" => ~reset
  /\ shape["answers"] # "current" => \A q \in Askers : answer[q] = "none"
  /\ reset /\ place \in {"half", "locked", "checked", "cleared", "applied"} => \A q \in Askers : answer[q] # "written"
  /\ reset /\ place \in {"locked", "checked", "cleared", "applied"} => \A q \in Askers : answer[q] # "read"
  /\ reset /\ place \in {"checked", "cleared", "applied"} => \A q \in Askers : answer[q] # "active"
  /\ migrated => \A k \in B!Kinds \ {"retired"} : shape[k] = "current"

LEMMA MigrationInit ==
  ASSUME B!Init
  PROVE  MigrationKept
BY DEF B!Init, MigrationKept, Shapes, B!Kinds

LEMMA MigrationStep ==
  ASSUME MigrationKept, B!Next
  PROVE  MigrationKept'
<1>1. ASSUME NEW q \in Askers, B!Read(q) \/ B!Insert(q) \/ B!Accept(q) \/ B!RollBack(q) \/ B!Settle(q)
      PROVE  MigrationKept'
  BY <1>1 DEF MigrationKept, B!Read, B!Insert, B!Accept, B!RollBack, B!Settle, B!Exclusive, B!script
<1>2. ASSUME NEW m \in Migrations, B!Begin(m) PROVE MigrationKept'
  BY <1>2 DEF MigrationKept, B!Begin
<1>3. CASE B!LockConversation \/ B!LockGeneration \/ B!Check
  BY <1>3 DEF MigrationKept, B!LockConversation, B!LockGeneration, B!Check
<1>4. CASE B!Drop \/ B!Alter \/ B!Create
  <2>1. work \in [B!Kinds -> Shapes] /\ place \in {"checked", "plain", "cleared"}
        /\ UNCHANGED <<shape, answer, migrated, migrant, reset>>
    BY <1>4 DEF MigrationKept, B!Drop, B!Alter, B!Create
  <2>2. work' \in [B!Kinds -> Shapes]
    <3>1. CASE B!Drop
      BY <2>1, <3>1 DEF B!Drop, Shapes
    <3>2. CASE B!Alter
      BY <2>1, <3>2 DEF B!Alter, Shapes
    <3>3. CASE B!Create
      BY <2>1, <3>3 DEF B!Create, Shapes
    <3> QED BY <1>4, <3>1, <3>2, <3>3
  <2> QED BY <1>4, <2>1, <2>2 DEF MigrationKept, B!Drop, B!Alter, B!Create
<1>5. CASE B!Commit
  BY <1>5 DEF MigrationKept, B!Commit, B!Fits, Shapes, B!Kinds
<1>6. CASE B!Fail
  BY <1>6 DEF MigrationKept, B!Fail
<1> QED BY <1>1, <1>2, <1>3, <1>4, <1>5, <1>6 DEF B!Next

(* migrate-database.mjs drops no accepted answer, and the API starts on what *)
(* it leaves, for any number of requests and migrations.                    *)
THEOREM MigrationSafe == AllSpec => []MigrationIsSafe
<1>1. AllInit => (part = "migration" => MigrationKept)
  BY MigrationInit DEF AllInit
<1>2. (part = "migration" => MigrationKept) /\ [AllNext]_all => (part = "migration" => MigrationKept)'
  <2>1. MigrationKept /\ UNCHANGED migration => MigrationKept'
    BY DEF MigrationKept, migration
  <2> QED BY <2>1, PartStep, MigrationStep
<1>3. (part = "migration" => MigrationKept) => MigrationIsSafe
  BY DEF MigrationKept, MigrationIsSafe, B!NoneLost, B!MigratedStarts
<1> QED BY <1>1, <1>2, <1>3, PTL DEF AllSpec

-----------------------------------------------------------------------------
(* Pool *)

Working == {"begin", "setup", "pid", "work", "commit", "rollback"}

(* A connection that is handed out is outside any transaction until the      *)
(* first statement.                                                         *)
PoolKept ==
  /\ doing \in [Queries -> [kind : {None, "tx", "read"}, at : {"idle", "connect"} \cup Working, on : Connections \cup {None}]]
  /\ inTx \subseteq Connections
  /\ \A c \in Queries : doing[c].on # None <=> doing[c].at \in Working
  /\ \A c, d \in Queries : doing[c].on # None /\ doing[c].on = doing[d].on => c = d
  /\ \A c \in Queries : doing[c].at = "begin" => doing[c].on \notin inTx
  /\ P!Free \cap inTx \subseteq broken

LEMMA PoolInit ==
  ASSUME P!Init
  PROVE  PoolKept
BY DEF P!Init, P!Idle, PoolKept, Working

LEMMA PoolStep ==
  ASSUME PoolKept, P!Next
  PROVE  PoolKept'
<1>0. \A k : k \in P!Free <=> k \in Connections /\ \A c \in Queries : doing[c].on # k
  BY ServicesAssumption DEF P!Free, P!Held
<1>1. ASSUME NEW c \in Queries, NEW kind \in {"tx", "read"}, P!Begin(c, kind) PROVE PoolKept'
  <2> DEFINE new == [P!Idle EXCEPT !.kind = kind, !.at = "connect"]
             Call == [kind : {None, "tx", "read"}, at : {"idle", "connect"} \cup Working, on : Connections \cup {None}]
  <2>1. /\ doing[c].on = None /\ doing' = [doing EXCEPT ![c] = new] /\ UNCHANGED <<inTx, broken>>
    BY <1>1 DEF P!Begin, P!Idle
  <2>2. new \in Call
    <3>1. P!Idle \in Call
      BY DEF P!Idle
    <3> QED BY <3>1
  <2>3. new.on = None /\ new.at \notin Working
    BY DEF Working, P!Idle
  <2> HIDE DEF new
  <2>4. \A d \in Queries : doing'[d] = IF d = c THEN new ELSE doing[d]
    BY <2>1 DEF PoolKept
  <2>5. \A d \in Queries : doing'[d].on = doing[d].on
    BY <2>1, <2>3, <2>4
  <2>6. P!Free' = P!Free
    BY <2>5 DEF P!Free, P!Held
  <2>7. doing' \in [Queries -> [kind : {None, "tx", "read"}, at : {"idle", "connect"} \cup Working, on : Connections \cup {None}]]
    BY <2>1, <2>2 DEF PoolKept
  <2>8. \A d \in Queries : doing'[d].at = "begin" => d # c /\ doing[d].at = "begin"
    BY <2>3, <2>4 DEF Working
  <2> QED BY <2>1, <2>3, <2>4, <2>5, <2>6, <2>7, <2>8 DEF PoolKept
<1>2. ASSUME NEW c \in Queries, NEW k \in Connections, P!Connect(c, k) PROVE PoolKept'
  BY <1>0, <1>2, ServicesAssumption DEF PoolKept, P!Connect, P!Free, P!Held, Working
<1>3. ASSUME NEW c \in Queries, P!AlreadyAborted(c) PROVE PoolKept'
  BY <1>3 DEF PoolKept, P!AlreadyAborted, P!Refused, P!Released, P!Idle, P!Free, P!Held, Working
<1>4. ASSUME NEW c \in Queries, P!Statement(c) PROVE PoolKept'
  BY <1>4 DEF PoolKept, P!Statement, P!NextOf, P!Free, P!Held, Working
<1>5. ASSUME NEW c \in Queries, P!Fails(c) PROVE PoolKept'
  BY <1>5 DEF PoolKept, P!Fails, P!Free, P!Held, Working
<1>6. ASSUME NEW c \in Queries, P!Commit(c) \/ P!Rollback(c) PROVE PoolKept'
  BY <1>6 DEF PoolKept, P!Commit, P!Rollback, P!Released, P!Idle, P!Free, P!Held, Working
<1>7. ASSUME NEW c \in Queries, P!Abort(c) PROVE PoolKept'
  BY <1>7 DEF PoolKept, P!Abort, P!Free, P!Held
<1>8. ASSUME NEW k \in Connections, P!Cancels(k) \/ P!Lose(k) PROVE PoolKept'
  BY <1>8 DEF PoolKept, P!Cancels, P!Lose, P!Free, P!Held, Working
<1> QED BY <1>1, <1>2, <1>3, <1>4, <1>5, <1>6, <1>7, <1>8 DEF P!Next

(* No call of the database client meets a transaction of another, and an    *)
(* abort leaves no connection behind, for any connections and calls.        *)
THEOREM PoolStaysClean == AllSpec => []PoolIsClean
<1>1. AllInit => (part = "pool" => PoolKept)
  BY PoolInit DEF AllInit
<1>2. (part = "pool" => PoolKept) /\ [AllNext]_all => (part = "pool" => PoolKept)'
  <2>1. PoolKept /\ UNCHANGED pool => PoolKept'
    BY DEF PoolKept, pool, P!Free, P!Held
  <2> QED BY <2>1, PartStep, PoolStep
<1>3. (part = "pool" => PoolKept) => PoolIsClean
  BY DEF PoolKept, PoolIsClean, P!PoolIsClean, Working
<1> QED BY <1>1, <1>2, <1>3, PTL DEF AllSpec
-----------------------------------------------------------------------------
(* Evidence *)

Taken == [turn : 1..MaxTurns, task : Nat, cond : Conditions, label : Accesses, under : Accesses,
          moved : BOOLEAN, whole : BOOLEAN]
States == [task : Nat, cond : Conditions, latest : BOOLEAN, cites : SUBSET Nat]

(* What a state cites is whole and fits it. *)
Cited(s) ==
  \A a \in s.cites :
    a \in 1..Len(artifacts) /\ artifacts[a].whole /\ artifacts[a].task = s.task /\ artifacts[a].cond = s.cond

EvidenceTypes ==
  /\ turn \in 0..MaxTurns /\ verdict \in [1..MaxTurns -> {"none", "completed", "dropped"}]
  /\ committed \in States /\ draft \in States /\ tasks \in Nat
  /\ artifacts \in Seq(Taken) /\ access \in Accesses /\ moved \in BOOLEAN

TurnKept ==
  /\ at # "none" => turn # 0 /\ verdict[turn] = "none"
  /\ \A t \in 1..MaxTurns : t > turn => verdict[t] = "none"

CommittedKept == Cited(committed) /\ \A a \in committed.cites : verdict[artifacts[a].turn] = "completed"

(* What the draft cites is of its own turn or of a completed one. *)
DraftKept == at # "none" => Cited(draft) /\ \A a \in draft.cites : E!UsableInGeneration(a)

(* A result is labelled with the access it was read under, unless that moved *)
(* in between.                                                              *)
LabelsKept ==
  \A a \in 1..Len(artifacts) : artifacts[a].turn <= turn /\ E!ReadUnder(a, artifacts[a].label)

CallKept ==
  /\ at = "asked" => label \in Accesses /\ (label = access \/ moved)
  /\ at = "ran" => result[1] \in Accesses /\ result[2] \in BOOLEAN /\ label \in Accesses /\ (label = result[1] \/ moved)
  /\ at \in {"reading", "drawing"} =>
       using.artifact \in 1..Len(artifacts) /\ E!ReadUnder(using.artifact, using.since)

EvidenceKept == EvidenceTypes /\ TurnKept /\ CommittedKept /\ DraftKept /\ LabelsKept /\ CallKept

LEMMA EvidenceInit ==
  ASSUME E!Init
  PROVE  EvidenceKept
<1>1. PICK c \in Conditions : committed = E!NewTask(0, c)
  BY ServicesAssumption DEF E!Init
<1>2. access \in Accesses
  BY ServicesAssumption DEF E!Init
<1>3. committed \in States /\ draft \in States /\ committed.cites = {}
  BY <1>1 DEF E!Init, E!NewTask, States
<1>4. /\ turn = 0 /\ verdict = [t \in 1..MaxTurns |-> "none"] /\ tasks = 0
      /\ artifacts = <<>> /\ at = "none" /\ moved = FALSE
  BY DEF E!Init
<1>5. EvidenceTypes
  <2>1. artifacts \in Seq(Taken)
    BY <1>4
  <2>2. MaxTurns \in Nat /\ 0 \in 0..MaxTurns
    BY ServicesAssumption
  <2>3. verdict \in [1..MaxTurns -> {"none", "completed", "dropped"}]
    BY <1>4
  <2> QED BY <1>2, <1>3, <1>4, <2>1, <2>2, <2>3 DEF EvidenceTypes
<1>6. TurnKept /\ DraftKept /\ CallKept
  BY <1>4 DEF TurnKept, DraftKept, CallKept
<1>7. CommittedKept
  BY <1>3 DEF CommittedKept, Cited
<1>8. LabelsKept
  BY <1>4 DEF LabelsKept
<1> QED BY <1>5, <1>6, <1>7, <1>8 DEF EvidenceKept

(* Calls that store nothing. *)
LEMMA QuietStep ==
  ASSUME EvidenceKept, UNCHANGED <<turn, verdict, committed, draft, tasks, artifacts>>,
         at' # "none" => at # "none", access' \in Accesses, moved' \in BOOLEAN, CallKept'
  PROVE  EvidenceKept'
<1>1. EvidenceTypes'
  BY DEF EvidenceKept, EvidenceTypes
<1>2. TurnKept' /\ LabelsKept'
  BY DEF EvidenceKept, TurnKept, LabelsKept, E!ReadUnder
<1>3. CommittedKept'
  BY DEF EvidenceKept, CommittedKept, Cited
<1>4. DraftKept'
  BY DEF EvidenceKept, DraftKept, Cited, E!UsableInGeneration
<1> QED BY <1>1, <1>2, <1>3, <1>4 DEF EvidenceKept

LEMMA EvidenceStep ==
  ASSUME EvidenceKept, E!Next
  PROVE  EvidenceKept'
<1>0. E!Ids = 1..Len(artifacts) /\ Len(artifacts) \in Nat /\ MaxTurns \in Nat
  BY ServicesAssumption DEF EvidenceKept, EvidenceTypes, E!Ids
<1>a. \A a \in 1..Len(artifacts) : artifacts[a] \in Taken
  BY DEF EvidenceKept, EvidenceTypes
<1>b. \A a \in 1..Len(artifacts) : artifacts[a].turn \in 1..MaxTurns
  BY <1>a DEF Taken
<1>1. CASE E!Begin
  <2>1. /\ at = "none" /\ at' = "idle" /\ turn' = turn + 1 /\ turn' \in 1..MaxTurns
        /\ UNCHANGED <<verdict, committed, artifacts, access, label, moved, result, using>>
    BY <1>0, <1>1 DEF E!Begin, E!world, E!call, EvidenceKept, EvidenceTypes
  <2>2. /\ tasks' \in Nat /\ draft' \in States
        /\ draft'.cites = {} \/ (draft' = committed)
    <3>1. ASSUME NEW c \in Conditions PROVE /\ E!Inherited(c) \in States
                                            /\ E!Inherited(c).cites = {} \/ E!Inherited(c) = committed
      BY DEF E!Inherited, EvidenceKept, EvidenceTypes, States
    <3>2. ASSUME NEW c \in Conditions
          PROVE  E!NewTask(tasks + 1, c) \in States /\ E!NewTask(tasks + 1, c).cites = {}
      BY DEF E!NewTask, EvidenceKept, EvidenceTypes, States
    <3> QED BY <1>1, <3>1, <3>2 DEF E!Begin, EvidenceKept, EvidenceTypes
  <2>3. EvidenceTypes'
    BY <2>1, <2>2 DEF EvidenceKept, EvidenceTypes
  <2>4. TurnKept' /\ LabelsKept' /\ CallKept'
    <3>1. verdict[turn'] = "none"
      BY <1>0, <2>1 DEF EvidenceKept, EvidenceTypes, TurnKept
    <3>2. turn \in Nat /\ \A a \in 1..Len(artifacts) : artifacts[a].turn \in Nat
      BY <1>0, <1>b DEF EvidenceKept, EvidenceTypes
    <3> QED BY <1>0, <2>1, <3>1, <3>2 DEF EvidenceKept, TurnKept, LabelsKept, CallKept, E!ReadUnder
  <2>5. CommittedKept'
    BY <2>1 DEF EvidenceKept, CommittedKept, Cited
  <2>6. DraftKept'
    BY <2>1, <2>2, <2>5 DEF CommittedKept, DraftKept, Cited, E!UsableInGeneration
  <2> QED BY <2>3, <2>4, <2>5, <2>6 DEF EvidenceKept
<1>2. CASE E!Complete \/ E!Drop
  <2>a. at # "none" /\ at' = "none" /\ UNCHANGED <<turn, draft, tasks, artifacts, access>>
    BY <1>2 DEF E!Complete, E!Drop, E!session, E!world
  <2>b. moved' = moved \/ moved' = FALSE
    BY <1>2 DEF E!Complete, E!Drop, E!Over, E!call
  <2>c. turn \in 1..MaxTurns
    BY <1>0, <2>a DEF EvidenceKept, EvidenceTypes, TurnKept
  <2>d. moved' \in BOOLEAN
    BY <2>b DEF EvidenceKept, EvidenceTypes
  <2>1. /\ at # "none" /\ at' = "none" /\ UNCHANGED <<turn, draft, tasks, artifacts, access>>
        /\ moved' \in BOOLEAN /\ turn \in 1..MaxTurns
    BY <2>a, <2>c, <2>d
  <2>2. \/ verdict' = [verdict EXCEPT ![turn] = "completed"] /\ committed' = draft
        \/ verdict' = [verdict EXCEPT ![turn] = "dropped"] /\ committed' = committed
    BY <1>2 DEF E!Complete, E!Drop
  <2>3. EvidenceTypes'
    BY <2>1, <2>2 DEF EvidenceKept, EvidenceTypes
  <2>4. TurnKept'
    <3>1. \A t \in 1..MaxTurns : t > turn => verdict'[t] = verdict[t]
      BY <1>0, <2>1, <2>2 DEF EvidenceKept, EvidenceTypes
    <3> QED BY <2>1, <3>1 DEF EvidenceKept, TurnKept
  <2>5. LabelsKept' /\ DraftKept' /\ CallKept'
    BY <2>1 DEF EvidenceKept, LabelsKept, DraftKept, CallKept, E!ReadUnder
  <2>6. CASE verdict' = [verdict EXCEPT ![turn] = "completed"] /\ committed' = draft
    <3>1. \A t \in 1..MaxTurns : verdict[t] = "completed" \/ t = turn => verdict'[t] = "completed"
      BY <2>1, <2>6 DEF EvidenceKept, EvidenceTypes
    <3>2. Cited(draft) /\ \A a \in draft.cites : verdict'[artifacts[a].turn] = "completed"
      BY <1>b, <2>1, <3>1 DEF EvidenceKept, DraftKept, Cited, E!UsableInGeneration
    <3>3. CommittedKept'
      BY <2>1, <2>6, <3>2 DEF CommittedKept, Cited
    <3> QED BY <2>3, <2>4, <2>5, <3>3 DEF EvidenceKept
  <2>7. CASE verdict' = [verdict EXCEPT ![turn] = "dropped"] /\ committed' = committed
    <3>1. \A a \in committed.cites : artifacts[a].turn # turn
      BY <2>1 DEF EvidenceKept, TurnKept, CommittedKept
    <3>2. CommittedKept'
      BY <1>b, <2>1, <2>7, <3>1 DEF EvidenceKept, EvidenceTypes, CommittedKept, Cited
    <3> QED BY <2>3, <2>4, <2>5, <3>2 DEF EvidenceKept
  <2> QED BY <2>2, <2>6, <2>7
<1>3. CASE E!Patch
  <2>1. /\ at # "none" /\ at' = at
        /\ UNCHANGED <<turn, verdict, committed, artifacts, access, label, moved, result, using>>
    BY <1>3 DEF E!Patch, E!world, E!call
  <2>2. PICK new \in States : E!Revise(new)
    <3>1. ASSUME NEW c \in Conditions, NEW l \in BOOLEAN
          PROVE  /\ [draft EXCEPT !.cond = c, !.latest = l] \in States
                 /\ [E!NewTask(tasks + 1, c) EXCEPT !.latest = l] \in States
      <4>1. draft \in States /\ E!NewTask(tasks + 1, c) \in States
        BY DEF E!NewTask, EvidenceKept, EvidenceTypes, States
      <4>2. [draft EXCEPT !.cond = c, !.latest = l] \in States
        BY <4>1 DEF States
      <4>3. [E!NewTask(tasks + 1, c) EXCEPT !.latest = l] \in States
        BY <4>1 DEF States
      <4> QED BY <4>2, <4>3
    <3> QED BY <1>3, <3>1 DEF E!Patch
  <2>3. tasks' \in Nat
    BY <1>3 DEF E!Patch, EvidenceKept, EvidenceTypes
  <2>4. PICK cites \in SUBSET Nat :
          /\ draft' = [new EXCEPT !.cites = cites]
          /\ cites = E!Kept(new) \/ \A a \in cites : a \in 1..Len(artifacts) /\ E!MayCite(a, new)
    <3>1. E!Kept(new) \in SUBSET Nat
      BY DEF E!Kept, EvidenceKept, EvidenceTypes, States
    <3>2. SUBSET E!Ids \subseteq SUBSET Nat
      BY <1>0
    <3> QED BY <1>0, <2>2, <3>1, <3>2 DEF E!Revise
  <2>5. draft' \in States /\ draft'.cites = cites /\ draft'.task = new.task /\ draft'.cond = new.cond
    BY <2>4 DEF States
  <2>6. DraftKept'
    <3>1. CASE cites = E!Kept(new)
      BY <2>1, <2>5, <3>1 DEF E!Kept, EvidenceKept, DraftKept, Cited, E!UsableInGeneration
    <3>2. CASE \A a \in cites : a \in 1..Len(artifacts) /\ E!MayCite(a, new)
      BY <2>1, <2>5, <3>2 DEF E!MayCite, E!Readable, E!Fits, DraftKept, Cited, E!UsableInGeneration
    <3> QED BY <2>4, <3>1, <3>2
  <2>7. EvidenceTypes'
    BY <2>1, <2>3, <2>5 DEF EvidenceKept, EvidenceTypes
  <2>8. TurnKept' /\ CommittedKept' /\ LabelsKept' /\ CallKept'
    BY <2>1 DEF EvidenceKept, TurnKept, CommittedKept, LabelsKept, CallKept, Cited, E!ReadUnder
  <2> QED BY <2>6, <2>7, <2>8 DEF EvidenceKept
<1>4. CASE E!SqlStore
  <2> DEFINE new == [turn |-> turn, task |-> draft.task, cond |-> draft.cond,
                     label |-> label, under |-> result[1], moved |-> moved, whole |-> result[2]]
  <2>1. /\ at = "ran" /\ at' = "stored" /\ artifacts' = Append(artifacts, new)
        /\ UNCHANGED <<turn, verdict, committed, draft, tasks, access, label, moved, result, using>>
    BY <1>4 DEF E!SqlStore, E!Label, E!session, E!world, E!call
  <2>2. new \in Taken /\ new.turn = turn /\ (new.under = new.label \/ new.moved)
    BY <1>0, <2>1 DEF EvidenceKept, EvidenceTypes, TurnKept, CallKept, Taken, States
  <2> HIDE DEF new
  <2>3. /\ artifacts' \in Seq(Taken) /\ Len(artifacts') = Len(artifacts) + 1
        /\ \A a \in 1..Len(artifacts) : artifacts'[a] = artifacts[a]
        /\ artifacts'[Len(artifacts) + 1] = new
    BY <2>1, <2>2, AppendProperties DEF EvidenceKept, EvidenceTypes
  <2>4. \A a \in 1..Len(artifacts') : a \in 1..Len(artifacts) \/ a = Len(artifacts) + 1
    BY <1>0, <2>3
  <2>5. \A a \in 1..Len(artifacts) : a \in 1..Len(artifacts')
    BY <1>0, <2>3
  <2>6. EvidenceTypes' /\ TurnKept' /\ CallKept'
    BY <2>1, <2>3 DEF EvidenceKept, EvidenceTypes, TurnKept, CallKept, E!ReadUnder
  <2>7. LabelsKept'
    BY <2>1, <2>2, <2>3, <2>4, <1>0 DEF EvidenceKept, EvidenceTypes, LabelsKept, E!ReadUnder
  <2>8. CommittedKept'
    BY <2>1, <2>3, <2>5 DEF EvidenceKept, CommittedKept, Cited
  <2>9. DraftKept'
    BY <2>1, <2>3, <2>5 DEF EvidenceKept, DraftKept, Cited, E!UsableInGeneration
  <2> QED BY <2>6, <2>7, <2>8, <2>9 DEF EvidenceKept
<1>5. CASE E!SqlStart \/ E!SqlRun
  <2>1. /\ UNCHANGED <<turn, verdict, committed, draft, tasks, artifacts, access>> /\ at # "none"
        /\ moved' \in BOOLEAN /\ access \in Accesses
    BY <1>5 DEF E!SqlStart, E!SqlRun, E!session, E!world, EvidenceKept, EvidenceTypes
  <2>2. CallKept'
    BY <1>5, <2>1 DEF E!SqlStart, E!SqlRun, E!session, E!world, EvidenceKept, EvidenceTypes, CallKept
  <2> QED BY <2>1, <2>2, QuietStep
<1>6. ASSUME NEW a \in 1..Len(artifacts), E!ReadCheck(a) \/ E!ChartCheck(a) PROVE EvidenceKept'
  <2>1. E!Readable(a) /\ at = "idle" /\ at' \in {"reading", "drawing"} /\ using' = [artifact |-> a, since |-> access]
        /\ UNCHANGED <<turn, verdict, committed, draft, tasks, artifacts, access, moved>>
    BY <1>6 DEF E!ReadCheck, E!ChartCheck, E!Check, E!session, E!world
  <2>2. artifacts[a].label = access /\ E!ReadUnder(a, access)
    BY <1>6, <2>1 DEF E!Readable, EvidenceKept, EvidenceTypes, LabelsKept
  <2>3. CallKept'
    BY <2>1, <2>2 DEF CallKept, E!ReadUnder
  <2>4. access \in Accesses /\ moved \in BOOLEAN
    BY DEF EvidenceKept, EvidenceTypes
  <2> QED BY <2>1, <2>3, <2>4, QuietStep
<1>7. CASE E!AccessLost \/ E!SqlFails \/ E!FetchFails \/ E!SqlObserve \/ E!Fetch
  <2>1. /\ UNCHANGED <<turn, verdict, committed, draft, tasks, artifacts, access>> /\ at # "none"
        /\ at' \in {"closing", "idle"} /\ moved' \in BOOLEAN /\ access \in Accesses
    BY <1>7 DEF E!AccessLost, E!SqlFails, E!FetchFails, E!SqlObserve, E!Fetch, E!Over, E!session, E!world,
                EvidenceKept, EvidenceTypes
  <2>2. CallKept'
    BY <2>1 DEF CallKept
  <2> QED BY <2>1, <2>2, QuietStep
<1>8. CASE E!PolicyChange \/ E!GrantOrRevoke
  <2>1. /\ UNCHANGED <<turn, verdict, committed, draft, tasks, artifacts, at, label, result, using>>
        /\ access' \in Accesses /\ moved' \in BOOLEAN
        /\ moved => moved'
        /\ at = "asked" => moved' \/ access' = access
    BY <1>8 DEF E!PolicyChange, E!GrantOrRevoke, E!session, E!call, EvidenceKept, EvidenceTypes
  <2>2. CallKept'
    BY <2>1 DEF EvidenceKept, CallKept, E!ReadUnder
  <2> QED BY <2>1, <2>2, QuietStep
<1> QED BY <1>0, <1>1, <1>2, <1>3, <1>4, <1>5, <1>6, <1>7, <1>8 DEF E!Next

(* Judged hypotheses of the committed analysis state cite whole results of  *)
(* completed turns that fit, and a call uses rows only under the tables and *)
(* policies they were read under, unless those changed between fingerprint  *)
(* and execution, for any conditions, accesses and bounds.                  *)
THEOREM EvidenceSound == AllSpec => []EvidenceIsSound
<1>1. AllInit => (part = "evidence" => EvidenceKept)
  BY EvidenceInit DEF AllInit
<1>2. (part = "evidence" => EvidenceKept) /\ [AllNext]_all => (part = "evidence" => EvidenceKept)'
  <2>1. EvidenceKept /\ UNCHANGED evidence => EvidenceKept'
    BY DEF EvidenceKept, EvidenceTypes, TurnKept, CommittedKept, DraftKept, LabelsKept, CallKept, evidence, Cited,
           E!UsableInGeneration, E!ReadUnder
  <2> QED BY <2>1, PartStep, EvidenceStep
<1>3. EvidenceKept => E!CommittedFits /\ E!UsedWithinAccess
  <2> SUFFICES ASSUME EvidenceKept PROVE E!CommittedFits /\ E!UsedWithinAccess
    OBVIOUS
  <2>1. E!CommittedFits
    BY DEF EvidenceKept, CommittedKept, Cited, E!CommittedFits
  <2>2. E!Ids = 1..Len(artifacts) /\ \A a \in E!Ids : artifacts[a].label = access => E!ReadUnder(a, access)
    <3>1. E!Ids = 1..Len(artifacts)
      BY DEF E!Ids
    <3> QED BY <3>1 DEF EvidenceKept, LabelsKept
  <2>3. \A a \in E!Ids : E!MayTable(a) \/ E!MayShow(a) => E!ReadUnder(a, access)
    BY <2>2 DEF E!MayTable, E!MayShow, E!Readable
  <2>4. at = "stored" /\ E!Readable(Len(artifacts)) => E!ReadUnder(Len(artifacts), access)
    BY <2>2 DEF E!Readable, E!ReadQueryArtifact, E!Ids
  <2>5. at \in {"reading", "drawing"} => E!ReadUnder(using.artifact, using.since)
    BY DEF EvidenceKept, CallKept
  <2> QED BY <2>1, <2>3, <2>4, <2>5 DEF E!UsedWithinAccess
<1> QED BY <1>1, <1>2, <1>3, PTL DEF AllSpec, EvidenceIsSound
-----------------------------------------------------------------------------
(* Memory *)

Revisions == [content : M!Contents, named : SUBSET M!Fields, from : {None} \cup Candidates \cup Messages]
Proposed ==
  [proposal : M!Proposals, status : {"pending", "accepted", "rejected", "lost"}, version : Nat,
   result : {None} \cup (Items \X Nat)]
Edits ==
  [item : Items, expected : Nat, read : Nat, named : SUBSET M!Fields, deleted : BOOLEAN, content : M!Contents]
Notes == [item : {None}, message : Messages, content : M!Contents]

MemoryTypes ==
  /\ revisions \in [Items -> Seq(Revisions)]
  /\ candidates \in [Candidates -> {None} \cup Proposed]
  /\ calls \in [Callers -> {None} \cup Edits \cup Notes]

(* A call that will pass the test of the version has the fields it does not  *)
(* name from the revision it will replace.                                  *)
EditKept(x) ==
  LET i == calls[x].item IN
  calls[x] # None /\ i # None =>
    /\ calls[x].read \in 1..Len(revisions[i]) /\ calls[x].expected <= calls[x].read
    /\ \A f \in M!Fields \ calls[x].named : calls[x].content[f] = revisions[i][calls[x].read].content[f]

UpdatesKept ==
  \A i \in Items : \A n \in 2..Len(revisions[i]) : \A f \in M!Fields \ revisions[i][n].named :
    revisions[i][n].content[f] = revisions[i][n - 1].content[f]

(* The candidate of a revision has been accepted, and names it. *)
Born(c, i, n) ==
  revisions[i][n].from = c =>
    candidates[c] # None /\ candidates[c].status \in {"accepted", "lost"} /\ candidates[c].result = <<i, n>>

MemoryKept ==
  /\ MemoryTypes
  /\ \A x \in Callers : EditKept(x)
  /\ UpdatesKept
  /\ \A c \in Candidates, i \in Items : \A n \in 1..Len(revisions[i]) : Born(c, i, n)
  /\ \A c \in Candidates : candidates[c] # None /\ candidates[c].status \in {"pending", "rejected"} => candidates[c].result = None

LEMMA MemoryInit ==
  ASSUME M!Init
  PROVE  MemoryKept
<1>1. \A i \in Items : revisions[i] = <<>> /\ Len(revisions[i]) = 0 /\ 1..0 = {} /\ 2..0 = {}
  BY DEF M!Init
<1>2. MemoryTypes
  BY DEF M!Init, MemoryTypes
<1> QED BY <1>1, <1>2 DEF M!Init, MemoryKept, EditKept, UpdatesKept

(* Content that changes nothing but what is named. *)
Follows(i, content, named) ==
  Len(revisions[i]) > 0 =>
    \A f \in M!Fields \ named : content[f] = revisions[i][Len(revisions[i])].content[f]

(* One more revision of item i, from the given author, and no other change. *)
Grown(i, from) ==
  /\ revisions' \in [Items -> Seq(Revisions)] /\ UpdatesKept'
  /\ \A j \in Items : \A n \in 1..Len(revisions[j]) : n \in 1..Len(revisions'[j]) /\ revisions'[j][n] = revisions[j][n]
  /\ \A j \in Items : \A n \in 1..Len(revisions'[j]) :
       n \in 1..Len(revisions[j]) \/ (j = i /\ n = Len(revisions[i]) + 1 /\ revisions'[j][n].from = from)

(* The one place where a revision is written. *)
LEMMA SaveKeeps ==
  ASSUME MemoryKept, NEW i \in Items, NEW content \in M!Contents, NEW named \in SUBSET M!Fields,
         NEW from \in {None} \cup Candidates \cup Messages, NEW kept, M!Save(i, content, named, from, kept),
         Follows(i, content, named)
  PROVE  Grown(i, from)
<1> DEFINE new == [content |-> content, named |-> named, from |-> from]
           N == Len(revisions[i])
<1>1. new \in Revisions /\ new.content = content /\ new.named = named /\ new.from = from
  BY DEF Revisions
<1>2. revisions[i] \in Seq(Revisions) /\ N \in Nat
  BY DEF MemoryKept, MemoryTypes
<1>3. revisions' = [revisions EXCEPT ![i] = Append(revisions[i], new)]
  BY DEF M!Save, MemoryKept, MemoryTypes
<1> HIDE DEF new
<1>4. /\ revisions'[i] \in Seq(Revisions) /\ Len(revisions'[i]) = N + 1
      /\ \A n \in 1..N : revisions'[i][n] = revisions[i][n]
      /\ revisions'[i][N + 1] = new
  BY <1>1, <1>2, <1>3, AppendProperties DEF MemoryKept, MemoryTypes
<1>5. \A j \in Items : j # i => revisions'[j] = revisions[j]
  BY <1>3 DEF MemoryKept, MemoryTypes
<1>6. revisions' \in [Items -> Seq(Revisions)]
  BY <1>3, <1>4 DEF MemoryKept, MemoryTypes
<1>7. \A j \in Items : Len(revisions[j]) \in Nat
  BY DEF MemoryKept, MemoryTypes
<1>8. ASSUME NEW n \in 2..(N + 1), NEW f \in M!Fields \ revisions'[i][n].named
      PROVE  revisions'[i][n].content[f] = revisions'[i][n - 1].content[f]
  <2>1. CASE n \in 2..N
    <3>1. revisions'[i][n] = revisions[i][n] /\ revisions'[i][n - 1] = revisions[i][n - 1]
      BY <1>2, <1>4, <2>1
    <3> QED BY <1>8, <2>1, <3>1 DEF MemoryKept, UpdatesKept
  <2>2. CASE n = N + 1
    <3>1. N > 0 /\ n - 1 = N /\ revisions'[i][N] = revisions[i][N]
      BY <1>2, <1>4, <2>2
    <3> QED BY <1>1, <1>4, <1>8, <2>2, <3>1 DEF Follows
  <2> QED BY <1>2, <2>1, <2>2
<1>9. UpdatesKept'
  <2>1. ASSUME NEW j \in Items, NEW n \in 2..Len(revisions'[j]), NEW f \in M!Fields \ revisions'[j][n].named
        PROVE  revisions'[j][n].content[f] = revisions'[j][n - 1].content[f]
    <3>1. CASE j = i
      BY <1>4, <1>8, <2>1, <3>1
    <3>2. CASE j # i
      BY <1>5, <2>1, <3>2 DEF MemoryKept, UpdatesKept
    <3> QED BY <3>1, <3>2
  <2> QED BY <2>1 DEF UpdatesKept
<1>10. \A j \in Items : \A n \in 1..Len(revisions[j]) : n \in 1..Len(revisions'[j]) /\ revisions'[j][n] = revisions[j][n]
  BY <1>2, <1>4, <1>5
<1>11. \A j \in Items : \A n \in 1..Len(revisions'[j]) :
          n \in 1..Len(revisions[j]) \/ (j = i /\ n = Len(revisions[i]) + 1 /\ revisions'[j][n].from = from)
  BY <1>1, <1>2, <1>4, <1>5
<1> QED BY <1>6, <1>9, <1>10, <1>11 DEF Grown

(* Calls keep their copy while others write. *)
LEMMA EditsStay ==
  ASSUME MemoryKept, NEW x \in Callers, calls'[x] = calls[x],
         \A j \in Items : \A n \in 1..Len(revisions[j]) : n \in 1..Len(revisions'[j]) /\ revisions'[j][n] = revisions[j][n]
  PROVE  EditKept(x)'
<1>1. EditKept(x) /\ (calls[x] # None /\ calls[x].item # None => calls[x].item \in Items)
  BY DEF MemoryKept, MemoryTypes, Edits, Notes
<1> QED BY <1>1 DEF EditKept

(* A revision that comes from no candidate. *)
LEMMA OwnSave ==
  ASSUME MemoryKept, NEW i \in Items, NEW content \in M!Contents, NEW named \in SUBSET M!Fields,
         NEW from \in {None} \cup Messages, NEW kept, M!Save(i, content, named, from, kept),
         Follows(i, content, named),
         UNCHANGED candidates, calls' \in [Callers -> {None} \cup Edits \cup Notes],
         \A x \in Callers : calls'[x] \in {calls[x], None}
  PROVE  MemoryKept'
<1>0. from \in {None} \cup Candidates \cup Messages
  OBVIOUS
<1>1. Grown(i, from)
  BY <1>0, SaveKeeps
<1>2. \A x \in Callers : EditKept(x)'
  BY <1>1, EditsStay DEF EditKept, Grown
<1>3. from \notin Candidates
  BY ServicesAssumption
<1>4. \A c \in Candidates, j \in Items : \A n \in 1..Len(revisions'[j]) : Born(c, j, n)'
  <2> SUFFICES ASSUME NEW c \in Candidates, NEW j \in Items, NEW n \in 1..Len(revisions'[j]) PROVE Born(c, j, n)'
    OBVIOUS
  <2>1. CASE n \in 1..Len(revisions[j])
    <3>1. Born(c, j, n) /\ revisions'[j][n] = revisions[j][n]
      BY <1>1, <2>1 DEF MemoryKept, Grown
    <3> QED BY <3>1 DEF Born
  <2>2. CASE j = i /\ n = Len(revisions[i]) + 1 /\ revisions'[j][n].from = from
    BY <1>3, <2>2 DEF Born
  <2> QED BY <1>1, <2>1, <2>2 DEF Grown
<1>5. MemoryTypes'
  BY <1>1 DEF MemoryKept, MemoryTypes, Grown
<1> QED BY <1>1, <1>2, <1>4, <1>5 DEF MemoryKept, Grown

(* What Decided writes. *)
Ruled(old, verdict1, result1) == [old EXCEPT !.status = verdict1, !.version = @ + 1, !.result = result1]

LEMMA RuledIsProposed ==
  ASSUME NEW old \in Proposed, NEW status1 \in {"accepted", "rejected"}, NEW result1 \in {None} \cup (Items \X Nat)
  PROVE  /\ Ruled(old, status1, result1) \in Proposed
         /\ Ruled(old, status1, result1).status = status1
         /\ Ruled(old, status1, result1).result = result1
<1> DEFINE a == [old EXCEPT !.status = status1]
           b == [a EXCEPT !.version = @ + 1]
           d == [b EXCEPT !.result = result1]
<1>1. a \in Proposed /\ a.status = status1
  BY DEF Proposed
<1> HIDE DEF a
<1>2. b \in Proposed /\ b.status = status1
  BY <1>1 DEF Proposed
<1> HIDE DEF b
<1>3. d \in Proposed /\ d.status = status1 /\ d.result = result1
  BY <1>2 DEF Proposed
<1>4. d = Ruled(old, status1, result1)
  BY DEF a, b, Ruled
<1> QED BY <1>3, <1>4

(* A candidate that is accepted. *)
LEMMA AcceptStep ==
  ASSUME MemoryKept, NEW c \in Candidates, candidates[c] # None, NEW expected, NEW content \in M!Contents,
         NEW i \in Items, NEW version, M!Accept(c, expected, content, i, version)
  PROVE  MemoryKept'
<1>0. candidates[c] \in Proposed /\ candidates[c].status = "pending"
  BY DEF MemoryKept, MemoryTypes, M!Accept, M!Undecided
<1> DEFINE N == Len(revisions[i])
           made == <<i, N + 1>>
           new == Ruled(candidates[c], "accepted", made)
<1>1. N \in Nat /\ made \in {None} \cup (Items \X Nat) /\ "accepted" \in {"accepted", "rejected"}
  BY DEF MemoryKept, MemoryTypes
<1>3. candidates' = [candidates EXCEPT ![c] = new] /\ UNCHANGED calls
  <2>1. M!Decided(c, "accepted", made) /\ UNCHANGED calls
    BY DEF M!Accept, M!Version
  <2> QED BY <2>1 DEF M!Decided, Ruled
<1> HIDE DEF made
<1>2. new \in Proposed /\ new.status = "accepted" /\ new.result = made
  BY <1>0, <1>1, RuledIsProposed
<1>4. PICK kept : M!Save(i, content, M!Fields, c, kept)
  BY DEF M!Accept, M!Insert
<1> HIDE DEF new
<1>5. Grown(i, c)
  <2>1. Follows(i, content, M!Fields) /\ M!Fields \in SUBSET M!Fields /\ c \in {None} \cup Candidates \cup Messages
    BY DEF Follows
  <2> QED BY <2>1, <1>4, SaveKeeps
<1>6. \A x \in Callers : EditKept(x)'
  BY <1>3, <1>5, EditsStay DEF Grown
<1>7. /\ candidates' \in [Candidates -> {None} \cup Proposed]
      /\ \A d \in Candidates : candidates'[d] = IF d = c THEN new ELSE candidates[d]
      /\ new # None
  BY <1>2, <1>3, ServicesAssumption DEF MemoryKept, MemoryTypes, Proposed
<1>8. ASSUME NEW d \in Candidates, NEW j \in Items, NEW n \in 1..Len(revisions'[j]) PROVE Born(d, j, n)'
  <2>1. CASE n \in 1..Len(revisions[j])
    <3>1. Born(d, j, n) /\ revisions'[j][n] = revisions[j][n]
      BY <1>5, <2>1 DEF MemoryKept, Grown
    <3> QED BY <1>0, <1>7, <3>1 DEF Born
  <2>2. CASE j = i /\ n = N + 1 /\ revisions'[j][n].from = c
    BY <1>2, <1>7, <2>2 DEF Born, made
  <2> QED BY <1>5, <2>1, <2>2 DEF Grown
<1>9. MemoryTypes'
  BY <1>3, <1>5, <1>7 DEF MemoryKept, MemoryTypes, Grown
<1> QED BY <1>2, <1>5, <1>6, <1>7, <1>8, <1>9 DEF MemoryKept, Grown

LEMMA MemoryStep ==
  ASSUME MemoryKept, M!Next
  PROVE  MemoryKept'
<1>1. ASSUME NEW i \in Items, M!Create(i) PROVE MemoryKept'
  <2>1. PICK content \in M!Contents : M!Save(i, content, M!Fields, None, "active")
    BY <1>1 DEF M!Create, M!Insert
  <2>2. Follows(i, content, M!Fields) /\ M!Fields \in SUBSET M!Fields /\ None \in {None} \cup Messages
    BY DEF Follows
  <2>3. UNCHANGED candidates /\ calls' \in [Callers -> {None} \cup Edits \cup Notes] /\ UNCHANGED calls
    BY <1>1 DEF M!Create, MemoryKept, MemoryTypes
  <2> QED BY <2>1, <2>2, <2>3, OwnSave
<1>2. ASSUME NEW x \in Callers, M!Update(x) PROVE MemoryKept'
  <2> DEFINE call == calls[x]
  <2>1. call # None /\ call.item # None /\ call \in Edits /\ EditKept(x)
    BY <1>2 DEF M!Update, MemoryKept, MemoryTypes, Notes
  <2>2. call.item \in Items /\ call.content \in M!Contents /\ call.named \in SUBSET M!Fields /\ call.expected \in Nat /\ call.read \in Nat
    BY <2>1 DEF Edits
  <2>3. call.expected = Len(revisions[call.item])
    BY <1>2 DEF M!Update, M!Unchanged, M!Version
  <2>4. call.read = Len(revisions[call.item])
    BY <2>1, <2>2, <2>3 DEF EditKept
  <2>5. PICK kept : M!Save(call.item, call.content, call.named, None, kept)
    BY <1>2 DEF M!Update
  <2>6. Follows(call.item, call.content, call.named)
    BY <2>1, <2>4 DEF EditKept, Follows
  <2>7. /\ calls' \in [Callers -> {None} \cup Edits \cup Notes] /\ UNCHANGED candidates
        /\ \A y \in Callers : calls'[y] \in {calls[y], None}
    BY <1>2 DEF M!Update, MemoryKept, MemoryTypes
  <2> HIDE DEF call
  <2> QED BY <2>2, <2>5, <2>6, <2>7, OwnSave
<1>3. ASSUME NEW x \in Callers, NEW i \in Items, M!Remembered(x, i) PROVE MemoryKept'
  <2>1. calls[x] \in Notes /\ calls[x].content \in M!Contents /\ calls[x].message \in Messages
    BY <1>3, ServicesAssumption DEF M!Remembered, MemoryKept, MemoryTypes, Edits, Notes
  <2>2. M!Save(i, calls[x].content, M!Fields, calls[x].message, "active")
    BY <1>3 DEF M!Remembered, M!Insert
  <2>3. /\ calls' \in [Callers -> {None} \cup Edits \cup Notes] /\ UNCHANGED candidates
        /\ \A y \in Callers : calls'[y] \in {calls[y], None}
    BY <1>3 DEF M!Remembered, MemoryKept, MemoryTypes
  <2>4. Follows(i, calls[x].content, M!Fields) /\ M!Fields \in SUBSET M!Fields
    BY DEF Follows
  <2> QED BY <2>1, <2>2, <2>3, <2>4, OwnSave
<1>4. ASSUME UNCHANGED <<revisions, candidates>>, NEW x \in Callers, NEW call \in {None} \cup Edits \cup Notes,
             calls' = [calls EXCEPT ![x] = call], EditKept(x)'
      PROVE  MemoryKept'
  <2>1. MemoryTypes'
    BY <1>4 DEF MemoryKept, MemoryTypes
  <2>2. \A y \in Callers : EditKept(y)'
    BY <1>4 DEF MemoryKept, MemoryTypes, EditKept
  <2> QED BY <1>4, <2>1, <2>2 DEF MemoryKept, UpdatesKept, Born
<1>5. ASSUME NEW x \in Callers, NEW i \in Items, NEW e \in 1..MaxVersion, M!Read(x, i, e) PROVE MemoryKept'
  <2>1. PICK content \in M!Contents, named \in SUBSET M!Fields, deleted \in BOOLEAN :
          /\ \A f \in M!Fields \ named : content[f] = M!Latest(i)[f]
          /\ calls' = [calls EXCEPT ![x] = [item |-> i, expected |-> e, read |-> M!Version(i),
                                           named |-> named, deleted |-> deleted, content |-> content]]
    BY <1>5 DEF M!Read
  <2> DEFINE call == [item |-> i, expected |-> e, read |-> M!Version(i),
                      named |-> named, deleted |-> deleted, content |-> content]
  <2>2. M!Version(i) = Len(revisions[i]) /\ Len(revisions[i]) \in Nat /\ e \in 1..Len(revisions[i])
        /\ UNCHANGED <<revisions, candidates>>
    BY <1>5 DEF M!Read, M!Version, MemoryKept, MemoryTypes
  <2>3. call \in Edits
    BY <2>2 DEF Edits
  <2>4. /\ call.item = i /\ call.expected = e /\ call.read = Len(revisions[i]) /\ call.named = named
        /\ call.content = content
    BY <2>2
  <2> HIDE DEF call
  <2>5. calls'[x] = call /\ calls' = [calls EXCEPT ![x] = call]
    BY <2>1 DEF call, MemoryKept, MemoryTypes
  <2>6. EditKept(x)'
    BY <2>1, <2>2, <2>4, <2>5 DEF EditKept, M!Latest
  <2> QED BY <1>4, <2>2, <2>3, <2>5, <2>6
<1>6. ASSUME NEW x \in Callers, NEW m \in Messages, M!Remember(x, m) PROVE MemoryKept'
  <2>1. PICK content \in M!Contents : calls' = [calls EXCEPT ![x] = [item |-> None, message |-> m, content |-> content]]
    BY <1>6 DEF M!Remember
  <2> DEFINE call == [item |-> None, message |-> m, content |-> content]
  <2>2. call \in Notes /\ call.item = None /\ UNCHANGED <<revisions, candidates>>
    BY <1>6 DEF Notes, M!Remember
  <2> HIDE DEF call
  <2>3. calls'[x] = call /\ calls' = [calls EXCEPT ![x] = call]
    BY <2>1 DEF call, MemoryKept, MemoryTypes
  <2>4. EditKept(x)'
    BY <2>2, <2>3 DEF EditKept
  <2> QED BY <1>4, <2>2, <2>3, <2>4
<1>7. ASSUME NEW x \in Callers, M!Refuse(x) PROVE MemoryKept'
  <2>1. calls' = [calls EXCEPT ![x] = None] /\ calls'[x] = None /\ UNCHANGED <<revisions, candidates>>
    BY <1>7 DEF M!Refuse, MemoryKept, MemoryTypes
  <2>2. EditKept(x)'
    BY <2>1 DEF EditKept
  <2> QED BY <1>4, <2>1, <2>2
<1>8. ASSUME NEW c \in Candidates, NEW new \in Proposed, candidates' = [candidates EXCEPT ![c] = new],
             UNCHANGED <<revisions, calls>>,
             candidates[c] # None /\ candidates[c].status \in {"accepted", "lost"} =>
               new.status \in {"accepted", "lost"} /\ new.result = candidates[c].result,
             new.status \in {"pending", "rejected"} => new.result = None
      PROVE  MemoryKept'
  <2>1. /\ \A d \in Candidates : candidates'[d] = IF d = c THEN new ELSE candidates[d]
        /\ new # None
    BY <1>8, ServicesAssumption DEF MemoryKept, MemoryTypes, Proposed
  <2>2. MemoryTypes'
    BY <1>8 DEF MemoryKept, MemoryTypes
  <2>3. \A d \in Candidates, i \in Items : \A n \in 1..Len(revisions[i]) : Born(d, i, n)'
    BY <1>8, <2>1 DEF MemoryKept, Born
  <2> QED BY <1>8, <2>1, <2>2, <2>3 DEF MemoryKept, UpdatesKept, EditKept
<1>9. ASSUME NEW c \in Candidates, NEW p \in M!Proposals, M!Propose(c, p) PROVE MemoryKept'
  <2>1. M!Candidate(p) \in Proposed /\ M!Candidate(p).status = "pending" /\ M!Candidate(p).result = None
    BY DEF M!Candidate, Proposed
  <2> QED BY <1>8, <1>9, <2>1 DEF M!Propose
<1>10. ASSUME NEW c \in Candidates, M!Lose(c) PROVE MemoryKept'
  <2> DEFINE new == [candidates[c] EXCEPT !.status = "lost"]
  <2>1. candidates[c] \in Proposed
    BY <1>10 DEF M!Lose, MemoryKept, MemoryTypes
  <2>2. new \in Proposed /\ new.status = "lost" /\ new.result = candidates[c].result
    BY <2>1 DEF Proposed
  <2>3. candidates' = [candidates EXCEPT ![c] = new] /\ UNCHANGED <<revisions, calls>>
    BY <1>10 DEF M!Lose
  <2> HIDE DEF new
  <2> QED BY <1>8, <2>2, <2>3
<1>11. ASSUME NEW c \in Candidates, candidates[c] # None, NEW expected, M!Reject(c, expected) PROVE MemoryKept'
  <2> DEFINE new == Ruled(candidates[c], "rejected", None)
  <2>0. None \in {None} \cup (Items \X Nat) /\ "rejected" \in {"accepted", "rejected"}
    OBVIOUS
  <2>1. candidates[c] \in Proposed /\ candidates[c].status = "pending"
    BY <1>11 DEF M!Reject, M!Undecided, MemoryKept, MemoryTypes
  <2>2. new \in Proposed /\ new.status = "rejected" /\ new.result = None
    BY <2>0, <2>1, RuledIsProposed
  <2>3. candidates' = [candidates EXCEPT ![c] = new] /\ UNCHANGED <<revisions, calls>>
    BY <1>11 DEF Ruled, M!Reject, M!Decided
  <2> HIDE DEF new
  <2> QED BY <1>8, <2>1, <2>2, <2>3
<1>12. ASSUME NEW c \in Candidates, M!Decide(c) PROVE MemoryKept'
  BY <1>11, <1>12, AcceptStep DEF M!Decide, M!Visible
<1>13. ASSUME NEW c \in Candidates, M!CompleteGeneration(c) PROVE MemoryKept'
  BY <1>13 DEF M!CompleteGeneration, MemoryKept, MemoryTypes, EditKept, UpdatesKept, Born
<1> QED BY <1>1, <1>2, <1>3, <1>5, <1>6, <1>7, <1>9, <1>10, <1>12, <1>13 DEF M!Next

(* A revision of a memory leaves what its author did not name as it was, and *)
(* a candidate becomes one revision at most, for any items, candidates,      *)
(* callers of the memory repository and revisions.                          *)
THEOREM MemoryStays == AllSpec => []MemoryIsKept
<1>1. AllInit => (part = "memory" => MemoryKept)
  BY MemoryInit DEF AllInit
<1>2. (part = "memory" => MemoryKept) /\ [AllNext]_all => (part = "memory" => MemoryKept)'
  <2>1. MemoryKept /\ UNCHANGED memory => MemoryKept'
    BY DEF MemoryKept, MemoryTypes, EditKept, UpdatesKept, Born, memory
  <2> QED BY <2>1, PartStep, MemoryStep
<1>3. MemoryKept => M!NoLostUpdate /\ M!DecidedOnce
  <2> SUFFICES ASSUME MemoryKept PROVE M!NoLostUpdate /\ M!DecidedOnce
    OBVIOUS
  <2>1. \A i \in Items : Len(revisions[i]) \in Nat
    BY DEF MemoryKept, MemoryTypes
  <2>2. M!NoLostUpdate
    BY <2>1, ServicesAssumption DEF M!NoLostUpdate, M!Version, MemoryKept, UpdatesKept
  <2>3. M!DecidedOnce
    BY <2>1, ServicesAssumption DEF M!DecidedOnce, M!Version, MemoryKept, Born
  <2> QED BY <2>2, <2>3
<1> QED BY <1>1, <1>2, <1>3, PTL DEF AllSpec, MemoryIsKept
-----------------------------------------------------------------------------
(* Catalog *)

(* The policies have been read. *)
Judged(r) == (r.kind = "page" /\ r.next > 3) \/ (r.kind = "structure" /\ r.next > 4)

PoliciesKnown(r) ==
  /\ \A t \in r.denied : t \in r.columns \/ (Judged(r) /\ t \in D!TablesOf(r.ds)) => D!Has(r, t, "deny")
  /\ \A t \in r.hidden : t \in r.columns \/ (Judged(r) /\ t \in D!TablesOf(r.ds)) =>
       D!Has(r, t, "deny") \/ D!Has(r, t, "mask")

(* A request knows of its user that he could use the datasource once one     *)
(* check has passed, and it holds the policy of every table that was denied  *)
(* or hidden from the beginning and is still there.                         *)
ReadingKept(r) ==
  /\ r \in Readings
  /\ D!MayUse(r.ds, r.user) \/ r.next > 1 => r.could
  /\ \A t \in r.denied : policies[t] = "deny" \/ t \in gone
  /\ \A t \in r.hidden : policies[t] # "allow" \/ t \in gone
  /\ r.next > 0
  /\ r.catalog \subseteq IF r.ds = Local THEN {Preset} ELSE Uploads
  /\ r.columns # {} => r.next > 5
  /\ PoliciesKnown(r)

(* A table that is deleted stays so, and one that is not there has no policy. *)
StructureTypes ==
  /\ owner \in Users \cup {None}
  /\ DOMAIN uploaded \subseteq Uploads /\ DOMAIN uploaded \cap gone = {} /\ Preset \notin gone
  /\ policies \in [D!AllTables -> D!Access]
  /\ \A t \in Uploads : t \notin DOMAIN uploaded => policies[t] = "allow"

StructureKept ==
  /\ StructureTypes
  /\ serving # None => ReadingKept(serving)

LEMMA StructureInit ==
  ASSUME D!Init
  PROVE  StructureKept
BY ServicesAssumption DEF D!Init, StructureKept, StructureTypes, D!AllTables, D!Access

(* Where the queries of a request are. *)
LEMMA StepsOf ==
  ASSUME NEW kind \in D!Kinds, NEW n \in Nat, n > 0
  PROVE  /\ Len(D!Steps(kind)) \in 2..5
         /\ n <= Len(D!Steps(kind)) =>
              /\ n = 1 => D!Steps(kind)[n] \in {"access", "owner"}
              /\ D!Steps(kind)[n] = "policies" <=> (kind = "page" /\ n = 3) \/ (kind = "structure" /\ n = 4)
              /\ D!Steps(kind)[n] = "columns" => kind \in {"page", "structure"} /\ n = 5
<1>1. ASSUME NEW s, s = <<"access", "row", "catalog">> \/ s = <<"access", "catalog">> \/ s = <<"owner", "members">>
      PROVE  Len(s) \in 2..5 /\ (n <= Len(s) => s[n] \notin {"policies", "columns"} /\ s[1] \in {"access", "owner"})
  <2>1. CASE s = <<"access", "row", "catalog">>
    <3>1. Len(s) = 3 /\ s[1] = "access" /\ s[2] = "row" /\ s[3] = "catalog"
      BY <2>1
    <3>2. n <= 3 => n = 1 \/ n = 2 \/ n = 3
      OBVIOUS
    <3> QED BY <3>1, <3>2
  <2>2. CASE s = <<"access", "catalog">> \/ s = <<"owner", "members">>
    <3>1. Len(s) = 2 /\ s[1] \in {"access", "owner"} /\ s[2] \in {"catalog", "members"}
      BY <2>2
    <3>2. n <= 2 => n = 1 \/ n = 2
      OBVIOUS
    <3> QED BY <3>1, <3>2
  <2> QED BY <1>1, <2>1, <2>2
<1>2. CASE kind \in {"tables", "summary", "members"}
  BY <1>1, <1>2 DEF D!Steps
<1>3. CASE kind = "page"
  <2>1. PICK s : s = D!Steps(kind)
    OBVIOUS
  <2>2. s = <<"access", "access", "policies", "catalog", "columns">>
    BY <1>3, <2>1 DEF D!Steps
  <2>3. /\ Len(s) = 5 /\ s[1] = "access" /\ s[2] = "access" /\ s[3] = "policies" /\ s[4] = "catalog"
        /\ s[5] = "columns"
    BY <2>2
  <2>4. n <= 5 => n = 1 \/ n = 2 \/ n = 3 \/ n = 4 \/ n = 5
    OBVIOUS
  <2>5. n <= 5 => /\ n = 1 => s[n] \in {"access", "owner"}
                  /\ s[n] = "policies" <=> n = 3
                  /\ s[n] = "columns" <=> n = 5
    BY <2>3, <2>4
  <2> QED BY <1>3, <2>1, <2>3, <2>5
<1>4. CASE kind = "structure"
  <2>1. PICK s : s = D!Steps(kind)
    OBVIOUS
  <2>2. s = <<"access", "catalog", "access", "policies", "columns">>
    BY <1>4, <2>1 DEF D!Steps
  <2>3. /\ Len(s) = 5 /\ s[1] = "access" /\ s[2] = "catalog" /\ s[3] = "access" /\ s[4] = "policies"
        /\ s[5] = "columns"
    BY <2>2
  <2>4. n <= 5 => n = 1 \/ n = 2 \/ n = 3 \/ n = 4 \/ n = 5
    OBVIOUS
  <2>5. n <= 5 => /\ n = 1 => s[n] \in {"access", "owner"}
                  /\ s[n] = "policies" <=> n = 4
                  /\ s[n] = "columns" <=> n = 5
    BY <2>3, <2>4
  <2> QED BY <1>4, <2>1, <2>3, <2>5
<1> QED BY <1>2, <1>3, <1>4 DEF D!Kinds

(* A write leaves the facts of a request as they are as long as no table     *)
(* comes that is denied, and what it notes is what still holds.             *)
LEMMA NotedKept ==
  ASSUME StructureKept, StructureTypes', serving' = D!Noted(serving),
         gone \subseteq gone',
         \A t \in DOMAIN uploaded' : t \notin DOMAIN uploaded => policies[t] = "allow" /\ t \notin gone
  PROVE  StructureKept'
<1> SUFFICES ASSUME serving' # None PROVE ReadingKept(serving)'
  BY DEF StructureKept
<1>1. serving # None /\ ReadingKept(serving) /\ serving \in Readings
  BY DEF D!Noted, StructureKept, ReadingKept
<1>2. PICK r \in Readings : r = serving'
  <2>1. (serving.could \/ \E ds \in D!Datasources, u \in Users :
           serving.ds = ds /\ serving.user = u /\ D!MayUse(ds, u)') \in BOOLEAN
    BY <1>1 DEF Readings
  <2> QED BY <1>1, <2>1 DEF D!Noted, Readings
<1>3. /\ r.kind = serving.kind /\ r.user = serving.user /\ r.ds = serving.ds /\ r.next = serving.next
      /\ r.catalog = serving.catalog /\ r.policies = serving.policies /\ r.columns = serving.columns
      /\ r.denied = serving.denied \cap {t \in D!AllTables : policies'[t] = "deny" \/ t \in gone'}
      /\ r.hidden = serving.hidden \cap {t \in D!AllTables : policies'[t] # "allow" \/ t \in gone'}
  BY <1>1, <1>2 DEF D!Noted, Readings
<1>4. D!MayUse(r.ds, r.user)' \/ r.next > 1 => r.could
  <2>1. serving.could => r.could
    BY <1>1, <1>2 DEF D!Noted, Readings
  <2>2. ASSUME D!MayUse(r.ds, r.user)' PROVE r.could
    <3>1. r.ds \in D!Datasources /\ r.user \in Users
      BY DEF Readings, D!Datasources
    <3>2. \E ds \in D!Datasources, u \in Users : serving.ds = ds /\ serving.user = u /\ D!MayUse(ds, u)'
      BY <1>3, <2>2, <3>1
    <3> QED BY <1>1, <1>2, <3>2 DEF D!Noted, Readings
  <2> QED BY <1>1, <1>3, <2>1, <2>2 DEF ReadingKept
<1>5. D!AllTables' = D!AllTables
  BY DEF D!AllTables
<1>6. \A t \in r.denied \cup r.hidden : t \in D!TablesOf(r.ds)' => t \in D!TablesOf(r.ds)
  BY <1>1, <1>3 DEF D!TablesOf, ReadingKept
<1>7. \A t, a : D!Has(r, t, a) <=> D!Has(serving, t, a)
  BY <1>3 DEF D!Has
<1>8. Judged(r) <=> Judged(serving)
  BY <1>3 DEF Judged
<1> HIDE DEF Judged
<1>0. PoliciesKnown(serving)
  BY <1>1 DEF ReadingKept
<1>9. \A t \in r.denied : t \in r.columns \/ (Judged(r) /\ t \in D!TablesOf(r.ds)') => D!Has(r, t, "deny")
  BY <1>0, <1>3, <1>6, <1>7, <1>8 DEF PoliciesKnown
<1>10. \A t \in r.hidden : t \in r.columns \/ (Judged(r) /\ t \in D!TablesOf(r.ds)') =>
         D!Has(r, t, "deny") \/ D!Has(r, t, "mask")
  BY <1>0, <1>3, <1>6, <1>7, <1>8 DEF PoliciesKnown
<1>11. /\ \A t \in r.denied : policies'[t] = "deny" \/ t \in gone'
       /\ \A t \in r.hidden : policies'[t] # "allow" \/ t \in gone'
       /\ r.next > 0 /\ (r.catalog \subseteq IF r.ds = Local THEN {Preset} ELSE Uploads)
       /\ r.columns # {} => r.next > 5
  BY <1>1, <1>3 DEF ReadingKept
<1>12. ReadingKept(r)'
  BY <1>4, <1>9, <1>10, <1>11 DEF ReadingKept, PoliciesKnown, D!Has, Judged
<1> QED BY <1>2, <1>12 DEF ReadingKept, PoliciesKnown, Judged, D!Has

LEMMA StructureStep ==
  ASSUME StructureKept, D!Next
  PROVE  StructureKept'
<1>1. CASE D!Write
  <2>0. serving' = D!Noted(serving) /\ StructureTypes
    BY <1>1 DEF D!Write, StructureKept
  <2> DEFINE Fits == /\ StructureTypes' /\ gone \subseteq gone'
                     /\ \A t \in DOMAIN uploaded' :
                          t \notin DOMAIN uploaded => policies[t] = "allow" /\ t \notin gone
  <2>1. ASSUME D!Remove PROVE Fits
    BY <2>0, <2>1, ServicesAssumption DEF D!Remove, D!Without, StructureTypes, D!AllTables, D!Access
  <2>2. ASSUME NEW u \in Users, D!Create(u) \/ D!Grant(u) \/ D!Revoke(u) PROVE Fits
    BY <2>0, <2>2 DEF D!Create, D!Grant, D!Revoke, StructureTypes
  <2>3. ASSUME NEW u \in Users, NEW t \in Uploads, D!Upload(u, t) PROVE Fits
    BY <2>0, <2>3 DEF D!Upload, StructureTypes
  <2>4. ASSUME NEW u \in Users, NEW t \in Uploads, D!DeleteTable(u, t) PROVE Fits
    BY <2>0, <2>4, ServicesAssumption DEF D!DeleteTable, D!Without, StructureTypes, D!AllTables, D!Access
  <2>5. ASSUME NEW t \in D!AllTables, NEW a \in D!Access, D!SetPolicy(t, a) PROVE Fits
    BY <2>0, <2>5, ServicesAssumption DEF D!SetPolicy, StructureTypes, D!AllTables, D!Access
  <2>6. Fits
    BY <1>1, <2>1, <2>2, <2>3, <2>4, <2>5 DEF D!Write
  <2> QED BY <2>0, <2>6, NotedKept
<1>2. ASSUME UNCHANGED D!world, serving' = None PROVE StructureKept'
  BY <1>2 DEF StructureKept, StructureTypes, D!world
<1>3. ASSUME NEW r, serving' = r, UNCHANGED D!world, ReadingKept(r) PROVE StructureKept'
  <2>1. ReadingKept(r)'
    BY <1>3 DEF ReadingKept, PoliciesKnown, D!world, D!MayUse, D!Exists, D!TablesOf, D!Has, Judged
  <2> QED BY <1>3, <2>1 DEF StructureKept, StructureTypes, D!world, ReadingKept, PoliciesKnown, Judged, D!Has
<1>4. ASSUME NEW kind \in D!Kinds, NEW u \in Users, NEW named \in D!Datasources \cup {None},
             D!Begin(kind, u, named)
      PROVE  StructureKept'
  <2>1. PICK r : r = serving'
    OBVIOUS
  <2>2. r \in Readings
    BY <1>4, <2>1 DEF D!Begin, Readings, D!Resolved, D!Datasources, D!MayUse, D!Exists
  <2>3. ReadingKept(r)
    BY <1>4, <2>1, <2>2 DEF D!Begin, ReadingKept, PoliciesKnown, Judged
  <2> QED BY <1>3, <1>4, <2>1, <2>3 DEF D!Begin
<1>5. ASSUME D!Serving
      PROVE  /\ serving \in Readings /\ ReadingKept(serving) /\ serving.next \in Nat /\ serving.next > 0
             /\ serving.kind \in D!Kinds /\ serving.next <= Len(D!Steps(serving.kind))
  BY <1>5 DEF D!Serving, StructureKept, ReadingKept, Readings
(* What a query leaves. *)
<1>6. ASSUME NEW asked, D!Query(asked), asked \notin {"policies", "columns"},
             NEW Z \in SUBSET D!AllTables, D!Reads("catalog", Z),
             Z \subseteq IF serving.ds = Local THEN {Preset} ELSE Uploads,
             asked \in {"access", "owner"} => serving.could
      PROVE  StructureKept'
  <2>0. D!Serving /\ D!Steps(serving.kind)[serving.next] = asked
    BY <1>6 DEF D!Query
  <2>1. PICK r \in Readings : r = serving'
    <3>1. PICK n \in Nat : n = serving.next + 1
      BY <1>5, <2>0
    <3>2. serving' = [serving EXCEPT !.next = n, !["catalog"] = Z]
      BY <1>6, <3>1 DEF D!Reads
    <3> QED BY <1>5, <2>0, <3>2 DEF Readings
  <2>2. /\ r.kind = serving.kind /\ r.user = serving.user /\ r.ds = serving.ds /\ r.next = serving.next + 1
        /\ r.catalog = Z /\ r.policies = serving.policies /\ r.columns = serving.columns
        /\ r.denied = serving.denied /\ r.hidden = serving.hidden /\ (r.could <=> serving.could)
    BY <1>5, <1>6, <2>0, <2>1 DEF D!Reads, Readings
  <2>3. Judged(r) <=> Judged(serving)
    <3>1. ~((serving.kind = "page" /\ serving.next = 3) \/ (serving.kind = "structure" /\ serving.next = 4))
      BY <1>5, <1>6, <2>0, StepsOf
    <3>2. PICK n \in Nat : n = serving.next
      BY <1>5, <2>0
    <3>3. r.kind = serving.kind /\ r.next = n + 1
      BY <2>2, <3>2
    <3> QED BY <3>1, <3>2, <3>3 DEF Judged
  <2>4. serving.could
    BY <1>5, <1>6, <2>0, StepsOf DEF ReadingKept
  <2>5. ReadingKept(r)
    <3>1. PoliciesKnown(r)
      BY <1>5, <2>0, <2>2, <2>3 DEF ReadingKept, PoliciesKnown, D!Has
    <3> QED BY <1>5, <1>6, <2>0, <2>2, <2>3, <2>4, <3>1 DEF ReadingKept
  <2> QED BY <1>3, <1>6, <2>1, <2>5 DEF D!Reads
<1>7. CASE D!CheckAccess
  <2>1. D!Serving
    BY <1>7 DEF D!CheckAccess, D!Query
  <2>2. CASE D!MayUse(serving.ds, serving.user)
    BY <1>5, <1>6, <1>7, <2>1, <2>2 DEF D!CheckAccess, ReadingKept, Readings
  <2> QED BY <1>2, <1>7, <2>2 DEF D!CheckAccess, D!Refused
<1>8. CASE D!CheckOwner
  <2>1. D!Serving
    BY <1>8 DEF D!CheckOwner, D!Query
  <2>2. CASE serving.ds = Shared /\ owner = serving.user
    <3>1. D!MayUse(serving.ds, serving.user)
      BY <1>5, <2>1, <2>2, ServicesAssumption DEF D!MayUse, D!Exists, Readings
    <3> QED BY <1>5, <1>6, <1>8, <2>1, <2>2, <3>1 DEF D!CheckOwner, ReadingKept
  <2> QED BY <1>2, <1>8, <2>2 DEF D!CheckOwner, D!Refused
<1>9. CASE D!ReadRow
  <2>1. CASE D!Exists(serving.ds)
    BY <1>6, <1>9, <2>1 DEF D!ReadRow
  <2> QED BY <1>2, <1>9, <2>1 DEF D!ReadRow, D!Refused
<1>10. CASE D!ReadMembers
  BY <1>6, <1>10 DEF D!ReadMembers
<1>11. CASE D!ReadCatalog
  <2>1. PICK Z : Z = IF D!Exists(serving.ds) THEN D!TablesOf(serving.ds) ELSE {}
    OBVIOUS
  <2>2. (Z \subseteq IF serving.ds = Local THEN {Preset} ELSE Uploads) /\ Z \subseteq D!AllTables
    BY <2>1 DEF D!TablesOf, D!AllTables, StructureKept, StructureTypes
  <2> QED BY <1>6, <1>11, <2>1, <2>2 DEF D!ReadCatalog
<1>12. CASE D!ReadPolicies
  <2>0. /\ D!Serving /\ D!Query("policies") /\ StructureTypes
        /\ D!Reads("policies", {[table |-> t, access |-> policies[t]] : t \in D!TablesOf(serving.ds)})
    BY <1>12 DEF D!ReadPolicies, D!Query, StructureKept
  <2>1. PICK Z : Z = {[table |-> t, access |-> policies[t]] : t \in D!TablesOf(serving.ds)}
    OBVIOUS
  <2>2. Z \subseteq [table : D!AllTables, access : D!Access]
    BY <2>0, <2>1 DEF D!TablesOf, D!AllTables, StructureTypes
  <2>3. PICK r \in Readings : r = serving'
    <3>1. PICK n \in Nat : n = serving.next + 1
      BY <1>5, <2>0
    <3>2. serving' = [serving EXCEPT !.next = n, !["policies"] = Z]
      BY <2>0, <2>1, <3>1 DEF D!Reads
    <3> QED BY <1>5, <2>0, <2>2, <3>2 DEF Readings
  <2>4. /\ r.kind = serving.kind /\ r.user = serving.user /\ r.ds = serving.ds /\ r.next = serving.next + 1
        /\ r.catalog = serving.catalog /\ r.policies = Z /\ r.columns = serving.columns
        /\ r.denied = serving.denied /\ r.hidden = serving.hidden /\ (r.could <=> serving.could)
    BY <1>5, <2>0, <2>1, <2>3 DEF D!Reads, Readings
  <2>5. /\ serving.next \in {3, 4} /\ serving.could /\ r.columns = {}
    BY <1>5, <2>0, <2>4, StepsOf DEF D!Query, ReadingKept
  <2>6. \A t \in D!TablesOf(r.ds) : D!Has(r, t, policies[t]) /\ t \in D!AllTables /\ t \notin gone
    BY <2>0, <2>1, <2>4 DEF D!Has, D!TablesOf, StructureTypes, D!AllTables
  <2>7. \A t \in D!AllTables : policies[t] \in {"allow", "mask", "deny"}
    BY <2>0 DEF StructureTypes, D!Access
  <2>8. /\ \A t \in r.denied : t \in D!TablesOf(r.ds) => D!Has(r, t, "deny")
        /\ \A t \in r.hidden : t \in D!TablesOf(r.ds) => D!Has(r, t, "deny") \/ D!Has(r, t, "mask")
    BY <1>5, <2>0, <2>4, <2>6, <2>7 DEF ReadingKept
  <2>9. ReadingKept(r)
    BY <1>5, <2>0, <2>4, <2>5, <2>8 DEF ReadingKept, PoliciesKnown
  <2> QED BY <1>3, <2>0, <2>3, <2>9 DEF D!Reads
<1>13. CASE D!ReadColumns
  <2>0. /\ D!Serving /\ D!Query("columns") /\ StructureTypes
        /\ D!Reads("columns", {t \in serving.catalog : t = Preset \/ t \in DOMAIN uploaded})
    BY <1>13 DEF D!ReadColumns, D!Query, StructureKept
  <2>1. PICK Z : Z = {t \in serving.catalog : t = Preset \/ t \in DOMAIN uploaded}
    OBVIOUS
  <2>2. Z \subseteq D!TablesOf(serving.ds)
    BY <1>5, <2>0, <2>1, ServicesAssumption DEF D!TablesOf, ReadingKept
  <2>3. PICK r \in Readings : r = serving'
    <3>1. PICK n \in Nat : n = serving.next + 1
      BY <1>5, <2>0
    <3>2. serving' = [serving EXCEPT !.next = n, !["columns"] = Z]
      BY <2>0, <2>1, <3>1 DEF D!Reads
    <3>3. Z \in SUBSET D!AllTables
      BY <1>5, <2>0, <2>1 DEF Readings
    <3> QED BY <1>5, <2>0, <3>2, <3>3 DEF Readings
  <2>4. /\ r.kind = serving.kind /\ r.user = serving.user /\ r.ds = serving.ds /\ r.next = serving.next + 1
        /\ r.catalog = serving.catalog /\ r.policies = serving.policies /\ r.columns = Z
        /\ r.denied = serving.denied /\ r.hidden = serving.hidden /\ (r.could <=> serving.could)
    BY <1>5, <2>0, <2>1, <2>3 DEF D!Reads, Readings
  <2>5. serving.next = 5 /\ serving.could /\ Judged(serving) /\ Judged(r)
    BY <1>5, <2>0, <2>4, StepsOf DEF D!Query, ReadingKept, Judged
  <2>6. \A t, a : D!Has(r, t, a) <=> D!Has(serving, t, a)
    BY <2>4 DEF D!Has
  <2>7. /\ \A t \in r.denied : t \in D!TablesOf(r.ds) => D!Has(r, t, "deny")
        /\ \A t \in r.hidden : t \in D!TablesOf(r.ds) => D!Has(r, t, "deny") \/ D!Has(r, t, "mask")
    BY <1>5, <2>0, <2>4, <2>5, <2>6 DEF ReadingKept, PoliciesKnown
  <2>8. ReadingKept(r)
    BY <1>5, <2>0, <2>2, <2>4, <2>5, <2>7 DEF ReadingKept, PoliciesKnown
  <2> QED BY <1>3, <2>0, <2>3, <2>8 DEF D!Reads
<1>14. CASE D!Finish
  BY <1>2, <1>14 DEF D!Finish
<1> QED BY <1>1, <1>4, <1>7, <1>8, <1>9, <1>10, <1>11, <1>12, <1>13, <1>14 DEF D!Next

(* Whoever asks could use the datasource meanwhile, gets no column that was   *)
(* denied all the time the reading took, and on the page none unmarked that  *)
(* was masked all that time, for any users, tables and policies, however     *)
(* they change.                                                              *)
THEOREM ShownStaysWithinPolicy == AllSpec => []ShownWithinPolicy
<1>1. AllInit => (part = "structure" => StructureKept)
  BY StructureInit DEF AllInit
<1>2. (part = "structure" => StructureKept) /\ [AllNext]_all => (part = "structure" => StructureKept)'
  <2>1. StructureKept /\ UNCHANGED structure => StructureKept'
    <3> SUFFICES ASSUME StructureKept, UNCHANGED structure PROVE StructureKept'
      OBVIOUS
    <3>1. owner' = owner /\ permitted' = permitted /\ uploaded' = uploaded /\ gone' = gone
          /\ policies' = policies /\ serving' = serving
      BY DEF structure
    <3> QED BY <3>1 DEF StructureKept, StructureTypes, ReadingKept, PoliciesKnown, D!MayUse, D!Exists, D!TablesOf, D!Has, Judged
  <2> QED BY <2>1, PartStep, StructureStep
<1>3. (part = "structure" => StructureKept) => ShownWithinPolicy
  <2> SUFFICES ASSUME StructureKept, D!Served
               PROVE  /\ serving.could
                      /\ D!Answer(serving).shown \cap serving.denied = {}
                      /\ serving.kind = "page" =>
                           (D!Answer(serving).shown \ D!Answer(serving).masked) \cap serving.hidden = {}
    BY DEF ShownWithinPolicy, D!ShownWithinPolicy
  <2>1. ReadingKept(serving) /\ serving \in Readings /\ serving.kind \in D!Kinds /\ serving.next \in Nat
        /\ serving.next > 0
    BY DEF StructureKept, ReadingKept, D!Served, Readings
  <2>2. serving.next > 1
    <3>1. Len(D!Steps(serving.kind)) \in 2..5
      BY <2>1, StepsOf
    <3>2. PICK n \in Nat, l \in 2..5 : n = serving.next /\ l = Len(D!Steps(serving.kind))
      BY <2>1, <3>1
    <3>3. ~(n <= l)
      BY <3>2 DEF D!Served, D!Serving
    <3>4. n > 1
      BY <3>3
    <3> QED BY <3>2, <3>4
  <2>3. serving.could
    BY <2>1, <2>2 DEF ReadingKept
  <2>4. /\ \A t \in serving.denied : t \in serving.columns => D!Has(serving, t, "deny")
        /\ \A t \in serving.hidden : t \in serving.columns =>
             D!Has(serving, t, "deny") \/ D!Has(serving, t, "mask")
    <3>1. PoliciesKnown(serving)
      BY <2>1 DEF ReadingKept
    <3> QED BY <3>1 DEF PoliciesKnown
  <2> QED BY <2>3, <2>4 DEF D!Answer
<1> QED BY <1>1, <1>2, <1>3, PTL DEF AllSpec

-----------------------------------------------------------------------------
(* Results *)

(* What assessResultQuality says of the rows that came back *)
Judgement ==
  {w \in {R!Warning("EMPTY_RESULT", "warning")} : fetched.number = 0}
  \cup {w \in {R!Warning("RESULT_LIMITED", "blocking")} : limited}
  \cup {w \in {R!Warning("TOOL_RESULT_TRUNCATED", "blocking")} : R!Kept # fetched.number}
  \cup {w \in {R!Warning("DUPLICATE_GRAIN", "blocking")} : query.grain /\ R!Duplicates > 0}

(* What there is and how it was judged is a matter of the statement, and     *)
(* only one that is valid is carried out.                                   *)
ResultKept ==
  /\ policy \in [Columns -> {"allow", "mask", "deny"}]
  /\ step # "idle" => query \in R!Statements
  /\ step \in {"valid", "read", "assessed", "drawn"} => R!Valid(query)
  /\ step \in {"read", "assessed", "drawn"} =>
       /\ limited <=> R!IsLimited(query)
       /\ cells = [c \in Columns |-> R!Shown(query, c)]
       /\ fetched.number = R!Returned(query) /\ fetched.grains \in 0..R!Returned(query)
       /\ R!Returned(query) > 0 => fetched.grains > 0
  /\ step \in {"assessed", "drawn"} => warnings = Judgement
  /\ step = "drawn" => ~R!Blocked /\ fetched.exact

(* The parts of a statement that the rules look at *)
LEMMA StatementHas ==
  ASSUME NEW q \in R!Statements
  PROVE  /\ q.size \in Nat /\ q.inner \in {None} \cup Nat /\ q.outer \in {None} \cup Nat
         /\ Len(q.with) \in Nat /\ DOMAIN q.with = 1..Len(q.with)
<1>1. ASSUME NEW n \in 0..2, NEW w \in [1..n -> R!TableExpressions]
      PROVE  Len(w) \in Nat /\ DOMAIN w = 1..Len(w)
  <2>1. w \in Seq(R!TableExpressions)
    OBVIOUS
  <2> QED BY <2>1
<1>2. /\ R!Plain.size = 1 /\ R!Plain.inner = None /\ R!Plain.outer = None /\ R!Plain.with = <<>>
  BY DEF R!Plain
<1>3. CASE q \in {[R!Plain EXCEPT !.parsed = p] : p \in {"unknown", "several", "write"}}
                 \cup {[R!Plain EXCEPT !.forbidden = TRUE]}
  <2>1. q.size = 1 /\ q.inner = None /\ q.outer = None /\ q.with = <<>>
    BY <1>2, <1>3 DEF R!Plain
  <2> QED BY <2>1
<1>4. ASSUME NEW w \in UNION {[1..n -> R!TableExpressions] : n \in 0..2}, NEW f \in SUBSET Tables,
             q = R!Reading(w, f)
      PROVE  /\ q.size \in Nat /\ q.inner \in {None} \cup Nat /\ q.outer \in {None} \cup Nat
             /\ Len(q.with) \in Nat /\ DOMAIN q.with = 1..Len(q.with)
  <2>1. q.size = 1 /\ q.inner = None /\ q.outer = None /\ q.with = w
    BY <1>2, <1>4 DEF R!Plain, R!Reading
  <2>2. PICK n \in 0..2 : w \in [1..n -> R!TableExpressions]
    OBVIOUS
  <2> QED BY <1>1, <2>1, <2>2
<1>5. ASSUME NEW u, NEW s, NEW d, q = R!Using(u, s, d)
      PROVE  /\ q.size \in Nat /\ q.inner \in {None} \cup Nat /\ q.outer \in {None} \cup Nat
             /\ Len(q.with) \in Nat /\ DOMAIN q.with = 1..Len(q.with)
  <2>1. q.size = 1 /\ q.inner = None /\ q.outer = None /\ q.with = <<>>
    BY <1>2, <1>5 DEF R!Plain, R!Using
  <2> QED BY <2>1
<1>6. ASSUME NEW l \in {None} \cup 1..MaxSize, NEW k \in {None} \cup 1..MaxSize, NEW n \in 0..MaxSize, NEW g, q = R!Counting(l, k, n, g)
      PROVE  /\ q.size \in Nat /\ q.inner \in {None} \cup Nat /\ q.outer \in {None} \cup Nat
             /\ Len(q.with) \in Nat /\ DOMAIN q.with = 1..Len(q.with)
  <2>1. q.size = n /\ q.inner = l /\ q.outer = k /\ q.with = <<>>
    BY <1>2, <1>6 DEF R!Plain, R!Counting
  <2> QED BY <2>1, ServicesAssumption
<1>7. \/ q \in {[R!Plain EXCEPT !.parsed = p] : p \in {"unknown", "several", "write"}}
                \cup {[R!Plain EXCEPT !.forbidden = TRUE]}
      \/ \E w \in UNION {[1..n -> R!TableExpressions] : n \in 0..2}, f \in SUBSET Tables : q = R!Reading(w, f)
      \/ \E u \in [Columns -> SUBSET R!Places], s \in BOOLEAN, d \in BOOLEAN : q = R!Using(u, s, d)
      \/ \E l \in {None} \cup 1..MaxSize, k \in {None} \cup 1..MaxSize, n \in 0..MaxSize, g \in BOOLEAN :
           q = R!Counting(l, k, n, g)
  <2> DEFINE plain == {[R!Plain EXCEPT !.parsed = p] : p \in {"unknown", "several", "write"}}
                        \cup {[R!Plain EXCEPT !.forbidden = TRUE]}
             readings == {R!Reading(w, f) : w \in UNION {[1..n -> R!TableExpressions] : n \in 0..2}, f \in SUBSET Tables}
             usings == {R!Using(u, s, d) : u \in [Columns -> SUBSET R!Places], s \in BOOLEAN, d \in BOOLEAN}
             countings == {R!Counting(l, k, n, g) :
                             l \in {None} \cup 1..MaxSize, k \in {None} \cup 1..MaxSize,
                             n \in 0..MaxSize, g \in BOOLEAN}
  <2>1. R!Statements = plain \cup readings \cup usings \cup countings
    BY DEF R!Statements
  <2>2. q \in readings => \E w \in UNION {[1..n -> R!TableExpressions] : n \in 0..2}, f \in SUBSET Tables : q = R!Reading(w, f)
    OBVIOUS
  <2>3. q \in usings => \E u \in [Columns -> SUBSET R!Places], s \in BOOLEAN, d \in BOOLEAN : q = R!Using(u, s, d)
    OBVIOUS
  <2>4. q \in countings =>
          \E l \in {None} \cup 1..MaxSize, k \in {None} \cup 1..MaxSize, n \in 0..MaxSize, g \in BOOLEAN :
             q = R!Counting(l, k, n, g)
    OBVIOUS
  <2>5. q \in plain \/ q \in readings \/ q \in usings \/ q \in countings
    <3> HIDE DEF plain, readings, usings, countings
    <3> QED BY <2>1
  <2> HIDE DEF plain, readings, usings, countings
  <2> QED BY <2>2, <2>3, <2>4, <2>5 DEF plain
<1>8. CASE \E w \in UNION {[1..n -> R!TableExpressions] : n \in 0..2}, f \in SUBSET Tables : q = R!Reading(w, f)
  BY <1>4, <1>8, Zenon
<1>9. CASE \E u \in [Columns -> SUBSET R!Places], s \in BOOLEAN, d \in BOOLEAN : q = R!Using(u, s, d)
  BY <1>5, <1>9, Zenon
<1>10. CASE \E l \in {None} \cup 1..MaxSize, k \in {None} \cup 1..MaxSize, n \in 0..MaxSize, g \in BOOLEAN :
              q = R!Counting(l, k, n, g)
  BY <1>6, <1>10, Zenon
<1> QED BY <1>3, <1>7, <1>8, <1>9, <1>10, Zenon

LEMMA ResultInit ==
  ASSUME R!Init
  PROVE  ResultKept
BY DEF R!Init, ResultKept

LEMMA ResultStep ==
  ASSUME ResultKept, R!Next
  PROVE  ResultKept'
<1>1. CASE R!Submit
  <2>1. PICK q \in R!Statements : query' = q /\ step' = IF R!Valid(q) THEN "valid" ELSE "refused"
    BY <1>1 DEF R!Submit
  <2>2. R!Valid(q)' <=> R!Valid(q)
    BY <1>1 DEF R!Submit, R!Valid, R!TablesAllowed, R!ColumnsAllowed, R!MasksKept, R!Restricted, R!Masked,
                R!Used, R!Part, R!Known
  <2>3. step' \in {"valid", "refused"} /\ (step' = "valid" => R!Valid(q))
    BY <2>1
  <2>4. R!Valid(query)' <=> R!Valid(q)'
    BY <2>1 DEF R!Valid, R!TablesAllowed, R!ColumnsAllowed, R!MasksKept, R!Masked, R!Used, R!Part, R!Known
  <2> QED BY <1>1, <2>1, <2>2, <2>3, <2>4 DEF R!Submit, ResultKept
<1>2. ASSUME UNCHANGED <<allowed, policy, query>>
      PROVE  /\ R!Valid(query)' <=> R!Valid(query)
             /\ R!Returned(query)' = R!Returned(query) /\ (R!IsLimited(query)' <=> R!IsLimited(query))
             /\ \A c \in Columns : R!Shown(query, c)' = R!Shown(query, c)
  BY <1>2 DEF R!Valid, R!TablesAllowed, R!ColumnsAllowed, R!MasksKept, R!Restricted, R!Masked,
              R!Used, R!Part, R!Known, R!Returned, R!IsLimited, R!Bound, R!FirstLimit, R!Shown
<1>3. CASE R!Execute
  <2>1. UNCHANGED <<allowed, policy, query>> /\ step = "valid" /\ step' = "read"
    BY <1>3 DEF R!Execute
  <2>2. /\ limited' = R!IsLimited(query) /\ cells' = [c \in Columns |-> R!Shown(query, c)]
    BY <1>3 DEF R!Execute
  <2>3. PICK g \in 0..R!Returned(query) :
          /\ R!Returned(query) > 0 => g > 0
          /\ fetched'.number = R!Returned(query) /\ fetched'.grains = g
    BY <1>3 DEF R!Execute
  <2>4. (limited <=> R!IsLimited(query))' /\ (cells = [c \in Columns |-> R!Shown(query, c)])'
    BY <1>2, <2>1, <2>2
  <2>5. /\ (fetched.number = R!Returned(query))' /\ (fetched.grains \in 0..R!Returned(query))'
        /\ (R!Returned(query) > 0 => fetched.grains > 0)'
    BY <1>2, <2>1, <2>3
  <2>6. query' \in R!Statements /\ R!Valid(query)'
    BY <1>2, <2>1 DEF ResultKept
  <2> QED BY <2>1, <2>4, <2>5, <2>6 DEF ResultKept
<1>4. CASE R!ExecuteFails
  BY <1>4 DEF R!ExecuteFails, ResultKept
<1>5. CASE R!Assess
  <2>1. /\ UNCHANGED <<allowed, policy, query, fetched, limited, cells>> /\ step = "read" /\ step' = "assessed"
        /\ warnings' = Judgement
    BY <1>5 DEF R!Assess, Judgement
  <2>2. Judgement' = Judgement
    BY <2>1 DEF Judgement, R!Kept, R!Duplicates
  <2>3. R!Valid(query)'
    BY <1>2, <2>1 DEF ResultKept
  <2>4. /\ (limited <=> R!IsLimited(query))' /\ (cells = [c \in Columns |-> R!Shown(query, c)])'
        /\ (fetched.number = R!Returned(query))' /\ (fetched.grains \in 0..R!Returned(query))'
        /\ (R!Returned(query) > 0 => fetched.grains > 0)'
    BY <1>2, <2>1 DEF ResultKept
  <2> QED BY <2>1, <2>2, <2>3, <2>4 DEF ResultKept
<1>6. CASE R!Draw
  <2>1. /\ UNCHANGED <<allowed, policy, query, fetched, limited, cells, warnings>> /\ step = "assessed"
        /\ step' \in {"drawn", "refused"} /\ (step' = "drawn" => ~R!Blocked /\ fetched.exact)
    BY <1>6 DEF R!Draw
  <2>2. Judgement' = Judgement /\ (R!Blocked' <=> R!Blocked)
    BY <2>1 DEF Judgement, R!Kept, R!Duplicates, R!Blocked
  <2>3. R!Valid(query)'
    BY <1>2, <2>1 DEF ResultKept
  <2>4. /\ (limited <=> R!IsLimited(query))' /\ (cells = [c \in Columns |-> R!Shown(query, c)])'
        /\ (fetched.number = R!Returned(query))' /\ (fetched.grains \in 0..R!Returned(query))'
        /\ (R!Returned(query) > 0 => fetched.grains > 0)'
    BY <1>2, <2>1 DEF ResultKept
  <2> QED BY <2>1, <2>2, <2>3, <2>4 DEF ResultKept
<1> QED BY <1>1, <1>3, <1>4, <1>5, <1>6 DEF R!Next

(* What the executor lets through keeps to the policies. *)
LEMMA PolicyFollowed ==
  ASSUME ResultKept
  PROVE  R!OutputsFollowPolicy
<1> SUFFICES ASSUME step \in {"read", "assessed", "drawn"}
             PROVE  /\ R!ReallyRead(query) \subseteq allowed
                    /\ \A c \in Columns :
                         /\ policy[c] = "deny" => ~query.star /\ query.uses[c] = {} /\ cells[c] = "none"
                         /\ policy[c] = "mask" =>
                              /\ cells[c] # "raw"
                              /\ query.uses[c] \subseteq {"output"}
                              /\ query.uses[c] # {} => ~query.derived
  BY DEF R!OutputsFollowPolicy
<1>1. /\ R!Valid(query) /\ query \in R!Statements /\ cells = [c \in Columns |-> R!Shown(query, c)]
  BY DEF ResultKept
<1>2. PICK n \in Nat : n = Len(query.with) /\ DOMAIN query.with = 1..n
  BY <1>1, StatementHas
<1>3. ASSUME NEW i \in 1..(n + 1), NEW t \in R!Part(query, i),
             t \notin {query.with[j].name : j \in {k \in DOMAIN query.with : k < i}}
      PROVE  t \in allowed
  <2>1. t \in allowed \cup R!Known(query, i)
    BY <1>1, <1>2 DEF R!Valid, R!TablesAllowed
  <2>2. \A j \in 1..(i - 1) : j \in DOMAIN query.with /\ j < i
    BY <1>2
  <2> QED BY <1>3, <2>1, <2>2 DEF R!Known
<1>4. R!ReallyRead(query) \subseteq allowed
  BY <1>2, <1>3 DEF R!ReallyRead
<1>5. ASSUME NEW c \in Columns, policy[c] = "deny"
      PROVE  ~query.star /\ query.uses[c] = {} /\ cells[c] = "none"
  <2>1. ~query.star /\ query.uses[c] = {}
    BY <1>1, <1>5 DEF R!Valid, R!ColumnsAllowed, R!Restricted, R!Used
  <2> QED BY <1>1, <2>1 DEF R!Shown
<1>6. ASSUME NEW c \in Columns, policy[c] = "mask"
      PROVE  /\ cells[c] # "raw" /\ query.uses[c] \subseteq {"output"}
             /\ query.uses[c] # {} => ~query.derived
  <2>1. cells[c] # "raw"
    BY <1>1, <1>6 DEF R!Shown
  <2>2. query.uses[c] # {} => c \in R!Masked(query)
    BY <1>6 DEF R!Masked, R!Used
  <2>3. query.uses[c] # {} => ~query.derived /\ query.uses[c] = {"output"}
    BY <1>1, <2>2 DEF R!Valid, R!MasksKept
  <2> QED BY <2>1, <2>3
<1> QED BY <1>4, <1>5, <1>6

(* What is drawn is all there is, or all up to a LIMIT that was not noticed. *)
LEMMA ChartWhole ==
  ASSUME ResultKept
  PROVE  R!ChartsAreWhole
<1> SUFFICES ASSUME step = "drawn"
             PROVE  /\ \/ fetched.number = query.size
                       \/ fetched.number = R!Bound(query) /\ R!Bound(query) < R!FirstLimit(query)
                    /\ query.grain => R!Duplicates = 0
                    /\ fetched.exact /\ R!Kept = fetched.number
  BY DEF R!ChartsAreWhole
<1>1. /\ query \in R!Statements /\ (limited <=> R!IsLimited(query))
      /\ fetched.number = R!Returned(query) /\ fetched.grains \in 0..R!Returned(query)
      /\ warnings = Judgement /\ ~R!Blocked /\ fetched.exact
  BY DEF ResultKept
<1>2. ~limited /\ \A w \in Judgement : w.severity # "blocking"
  BY <1>1 DEF R!Blocked
<1>3. R!Kept = fetched.number
  <2>1. R!Kept # fetched.number => R!Warning("TOOL_RESULT_TRUNCATED", "blocking") \in Judgement
    BY DEF Judgement
  <2> QED BY <1>2, <2>1 DEF R!Warning
<1>4. query.grain => ~(R!Duplicates > 0)
  <2>1. query.grain /\ R!Duplicates > 0 => R!Warning("DUPLICATE_GRAIN", "blocking") \in Judgement
    BY DEF Judgement
  <2> QED BY <1>2, <2>1 DEF R!Warning
<1>5. PICK size \in Nat : size = query.size
  BY <1>1, StatementHas
<1>6. PICK m \in Nat : m = R!Bound(query)
  <2>1. MaxRows \in Nat /\ query.outer \in {None} \cup Nat
    BY <1>1, StatementHas, ServicesAssumption
  <2> QED BY <2>1 DEF R!Bound, R!Least
<1>7. PICK k \in Nat : k = R!Returned(query) /\ k = IF size <= m THEN size ELSE m
  BY <1>5, <1>6 DEF R!Returned, R!Least
<1>8. PICK l \in Nat : l = R!FirstLimit(query)
  BY <1>1, StatementHas, ServicesAssumption DEF R!FirstLimit
<1>9. k < l
  BY <1>1, <1>2, <1>7, <1>8 DEF R!IsLimited
<1>10. k = size \/ (k = m /\ m < l)
  BY <1>7, <1>9
<1>11. query.grain => R!Duplicates = 0
  <2>1. PICK g \in 0..k : g = fetched.grains
    BY <1>1, <1>7
  <2>2. R!Duplicates = k - g
    BY <1>1, <1>7, <2>1 DEF R!Duplicates
  <2> QED BY <1>4, <2>2
<1> QED BY <1>1, <1>3, <1>5, <1>6, <1>7, <1>8, <1>10, <1>11

(* What SqlExecutor returns is of granted tables, no denied column took part *)
(* in it and a masked one decided nothing, and a chart is drawn of all the   *)
(* rows there are, each grain once, or of those up to the LIMIT in force     *)
(* where the first LIMIT in the text is a higher one, for any tables,        *)
(* policies, limits and statements.                                          *)
THEOREM ResultsStaySound == AllSpec => []ResultsAreSound
<1>1. AllInit => (part = "results" => ResultKept)
  BY ResultInit DEF AllInit
<1>2. (part = "results" => ResultKept) /\ [AllNext]_all => (part = "results" => ResultKept)'
  <2>1. ResultKept /\ UNCHANGED results => ResultKept'
    <3> SUFFICES ASSUME ResultKept, UNCHANGED results PROVE ResultKept'
      OBVIOUS
    <3>1. /\ allowed' = allowed /\ policy' = policy /\ query' = query /\ step' = step
          /\ fetched' = fetched /\ limited' = limited /\ cells' = cells /\ warnings' = warnings
      BY DEF results
    <3> QED BY <3>1 DEF ResultKept, R!Valid, R!TablesAllowed, R!ColumnsAllowed, R!MasksKept, R!Restricted,
      R!Masked, R!Used, R!Part, R!Known, R!Returned, R!IsLimited, R!Bound, R!FirstLimit, R!Shown, R!Kept,
      R!Duplicates, R!Blocked, Judgement
  <2> QED BY <2>1, PartStep, ResultStep
<1>3. (part = "results" => ResultKept) => ResultsAreSound
  BY PolicyFollowed, ChartWhole DEF ResultsAreSound
<1> QED BY <1>1, <1>2, <1>3, PTL DEF AllSpec

-----------------------------------------------------------------------------
(* Turns *)

(* A set of natural numbers has a least element, and a finite one a greatest. *)
LEMMA LeastOf ==
  ASSUME NEW V \in SUBSET Nat, V # {}
  PROVE  \E m \in V : \A n \in V : m <= n
<1>1. \E m \in V : \A n \in V : <<n, m>> \notin OpToRel(<, Nat)
  BY NatLessThanWellFounded, WFMin
<1>2. PICK m \in V : \A n \in V : <<n, m>> \notin OpToRel(<, Nat)
  BY <1>1
<1>3. \A n \in V : ~(n < m)
  BY <1>2 DEF OpToRel
<1> QED BY <1>3

LEMMA MaxOf ==
  ASSUME NEW V \in SUBSET Nat, IsFiniteSet(V), V # {}
  PROVE  T!Max(V) \in V /\ \A n \in V : n <= T!Max(V)
<1> DEFINE Above(m) == {n \in V : n > m}
           C == {Cardinality(Above(m)) : m \in V}
<1>1. \A m \in V : IsFiniteSet(Above(m)) /\ Cardinality(Above(m)) \in Nat
  BY FS_Subset, FS_CardinalityType
<1>2. C \in SUBSET Nat /\ C # {}
  BY <1>1
<1>3. PICK c \in C : \A d \in C : c <= d
  BY <1>2, LeastOf
<1>4. PICK m \in V : c = Cardinality(Above(m))
  OBVIOUS
<1>5. ASSUME NEW n \in V, n > m PROVE FALSE
  <2>1. Above(n) \subseteq Above(m) /\ n \in Above(m) /\ n \notin Above(n)
    <3>1. \A k \in V : k > n => k > m
      BY <1>5
    <3>2. ~(n > n)
      OBVIOUS
    <3> QED BY <1>5, <3>1, <3>2
  <2>2. Above(n) \in SUBSET Above(m) /\ Above(n) # Above(m)
    BY <2>1
  <2> HIDE DEF Above
  <2>3. Cardinality(Above(n)) <= Cardinality(Above(m)) /\ Cardinality(Above(n)) # Cardinality(Above(m))
    BY <1>1, <2>2, FS_Subset
  <2>4. Cardinality(Above(m)) <= Cardinality(Above(n))
    BY <1>3, <1>4
  <2>5. PICK a \in Nat, b \in Nat : a = Cardinality(Above(n)) /\ b = Cardinality(Above(m))
    BY <1>1
  <2> QED BY <2>3, <2>4, <2>5
<1>6. \A n \in V : m >= n
  BY <1>5
<1>7. \E k \in V : \A n \in V : k >= n
  BY <1>6
<1>8. T!Max(V) \in V /\ \A n \in V : T!Max(V) >= n
  BY <1>7 DEF T!Max
<1> QED BY <1>8

LEMMA MaxIs ==
  ASSUME NEW V \in SUBSET Nat, NEW m \in V, \A n \in V : n <= m
  PROVE  T!Max(V) = m
<1>1. \E k \in V : \A n \in V : k >= n
  OBVIOUS
<1>2. T!Max(V) \in V /\ \A n \in V : T!Max(V) >= n
  BY <1>1 DEF T!Max
<1>3. PICK x \in Nat : x = T!Max(V) /\ x >= m /\ m >= x
  BY <1>2
<1> QED BY <1>3
(* The module of turns counts as the others do. *)
LEMMA SameCount ==
  ASSUME NEW V
  PROVE  T!Cardinality(V) = Cardinality(V)
BY DEF T!Cardinality, Cardinality

LEMMA Counted ==
  ASSUME NEW n \in Nat, NEW V \in SUBSET (1..n)
  PROVE  /\ IsFiniteSet(V) /\ Cardinality(V) \in Nat
         /\ \A U \in SUBSET V : Cardinality(U) \in Nat /\ Cardinality(U) <= Cardinality(V)
         /\ V # {} => \E m \in V : \A k \in V : k <= m
<1>1. IsFiniteSet(1..n)
  BY FS_Interval
<1>2. IsFiniteSet(V)
  BY <1>1, FS_Subset
<1>3. Cardinality(V) \in Nat
  BY <1>2, FS_CardinalityType
<1>4. ASSUME NEW U \in SUBSET V PROVE Cardinality(U) \in Nat /\ Cardinality(U) <= Cardinality(V)
  <2>1. IsFiniteSet(U) /\ Cardinality(U) <= Cardinality(V)
    BY <1>2, FS_Subset
  <2> QED BY <2>1, FS_CardinalityType
<1>5. V # {} => \E m \in V : \A k \in V : k <= m
  <2>1. V \in SUBSET Nat
    OBVIOUS
  <2> QED BY <1>2, <2>1, MaxOf
<1> QED BY <1>2, <1>3, <1>4, <1>5

AnswerRows ==
  [conversation : Conversations, key : Keys \cup ({"new"} \X Requests), body : Bodies,
   status : {"pending", "cancel_requested", "completed", "failed", "cancelled", "deleted"},
   turn : Nat, parent : Nat, completedAt : Nat]

(* p is the last of the answers S that was completed, or 0 for none. *)
LastDone(p, V) ==
  IF p = 0 THEN \A h \in V : answers[h].status # "completed"
  ELSE /\ p \in V /\ answers[p].status = "completed"
       /\ \A h \in V : answers[h].status = "completed" => h <= p

Before(g) == {h \in T!RowsOf(answers[g].conversation) : h < g}

(* Keys name one answer, only the last answer of a conversation is under    *)
(* way, so that they are completed in the order of their turns.             *)
AnswersKept ==
  /\ answers \in Seq(AnswerRows)
  /\ \A g, h \in T!Present : answers[g].key = answers[h].key => g = h
  /\ \A g, h \in T!Present : answers[g].conversation = answers[h].conversation /\ g < h =>
       /\ answers[g].status \notin T!Active
       /\ answers[g].status = "completed" /\ answers[h].status = "completed" =>
            answers[g].completedAt < answers[h].completedAt
  /\ Cardinality(T!ActiveIn(T!Present)) <= UserLimit
  /\ \A g \in T!Present : answers[g].turn = Cardinality(Before(g)) + 1 /\ LastDone(answers[g].parent, Before(g))

(* What a request has locked and found out, which stays so under its locks. *)
QuestionKept(r) ==
  requests[r] # None =>
    /\ requests[r].at \in {"user", "locked", "unique", "idle", "admitted"} => userLock = r
    /\ requests[r].at \in {"locked", "unique", "idle", "admitted"} =>
         conversationLock[requests[r].conversation] = r
    /\ requests[r].at \in {"unique", "idle", "admitted"} =>
         \A g \in T!Present : answers[g].key # requests[r].key
    /\ requests[r].at \in {"idle", "admitted"} =>
         /\ requests[r].conversation \in open
         /\ \A g \in T!RowsOf(requests[r].conversation) : answers[g].status \notin T!Active
    /\ requests[r].at = "admitted" =>
         /\ Cardinality(T!ActiveIn(T!Present)) < UserLimit
         /\ LastDone(requests[r].parent, T!RowsOf(requests[r].conversation))
    /\ requests[r].at # "clash"
    /\ requests[r].at = "answered" =>
         /\ requests[r].reply \in T!Ids /\ T!SameRequest(requests[r].reply, requests[r])
         /\ answers[requests[r].reply].key = requests[r].key

TurnsKept ==
  /\ AnswersKept
  /\ open \subseteq Conversations
  /\ requests \in [Requests -> {None} \cup Questions]
  /\ conversationLock \in [Conversations -> {None} \cup Requests]
  /\ \A r \in Requests : QuestionKept(r)

LEMMA TurnsInit ==
  ASSUME T!Init
  PROVE  TurnsKept
<1>1. answers = <<>> /\ T!Ids = {} /\ T!Present = {} /\ T!ActiveIn(T!Present) = {}
  BY DEF T!Init, T!Ids, T!Present, T!ActiveIn
<1>2. Cardinality(T!ActiveIn(T!Present)) <= UserLimit
  <2>1. Cardinality(T!ActiveIn(T!Present)) = 0
    BY <1>1, FS_EmptySet
  <2> QED BY <2>1, ServicesAssumption
<1>3. answers \in Seq(AnswerRows)
  BY <1>1
<1>4. AnswersKept
  BY <1>1, <1>2, <1>3 DEF AnswersKept
<1> QED BY <1>4 DEF T!Init, TurnsKept, QuestionKept

LEMMA AnswersAre ==
  ASSUME AnswersKept
  PROVE  \E n \in Nat :
           /\ n = Len(answers) /\ T!Ids = 1..n /\ T!Present \subseteq 1..n
           /\ \A g \in 1..n : answers[g] \in AnswerRows
           /\ \A c : T!RowsOf(c) \subseteq T!Present
           /\ T!ActiveIn(T!Present) \subseteq T!Present
<1>1. answers \in Seq(AnswerRows)
  BY DEF AnswersKept
<1>2. Len(answers) \in Nat /\ DOMAIN answers = 1..Len(answers) /\ \A g \in 1..Len(answers) : answers[g] \in AnswerRows
  BY <1>1
<1> QED BY <1>2 DEF T!Ids, T!Present, T!RowsOf, T!ActiveIn

(* A request goes on, and nobody else notices. *)
LEMMA QuestionStep ==
  ASSUME TurnsKept, UNCHANGED <<answers, open>>, NEW r \in Requests, NEW q \in Questions,
         requests' = [requests EXCEPT ![r] = q],
         \A s \in Requests : s # r /\ userLock = s => userLock' = s,
         conversationLock' \in [Conversations -> {None} \cup Requests],
         \A c \in Conversations, s \in Requests : s # r /\ conversationLock[c] = s => conversationLock'[c] = s,
         QuestionKept(r)'
  PROVE  TurnsKept'
<1>1. /\ answers' = answers /\ open' = open
      /\ T!Ids' = T!Ids /\ T!Present' = T!Present /\ (\A c : T!RowsOf(c)' = T!RowsOf(c))
      /\ T!ActiveIn(T!Present)' = T!ActiveIn(T!Present)
  BY DEF T!Ids, T!Present, T!RowsOf, T!ActiveIn
<1>2. AnswersKept'
  BY <1>1 DEF TurnsKept, AnswersKept, Before, LastDone
<1>3. requests' \in [Requests -> {None} \cup Questions]
  BY DEF TurnsKept
<1>4. ASSUME NEW s \in Requests, s # r PROVE QuestionKept(s)'
  <2>1. requests'[s] = requests[s] /\ requests[s] \in {None} \cup Questions
    BY <1>4 DEF TurnsKept
  <2>2. QuestionKept(s)
    BY DEF TurnsKept
  <2>3. requests[s] # None => requests[s].conversation \in Conversations
    BY <2>1 DEF Questions
  <2> QED BY <1>1, <1>4, <2>1, <2>2, <2>3 DEF QuestionKept, LastDone, T!SameRequest
<1> QED BY <1>1, <1>2, <1>3, <1>4 DEF TurnsKept

(* An answer that is under way is cancelled or comes to its end. *)
LEMMA StatusStep ==
  ASSUME TurnsKept, NEW g \in T!Present, answers[g].status \in T!Active, NEW x \in AnswerRows,
         answers' = [answers EXCEPT ![g] = x], UNCHANGED <<open, userLock, conversationLock, requests>>,
         x.conversation = answers[g].conversation, x.key = answers[g].key, x.body = answers[g].body,
         x.turn = answers[g].turn, x.parent = answers[g].parent, x.status # "deleted",
         x.status = "completed" => \A h \in T!Ids : answers[h].completedAt < x.completedAt
  PROVE  TurnsKept'
<1>1. PICK n \in Nat : /\ n = Len(answers) /\ T!Ids = 1..n /\ T!Present \subseteq 1..n
                       /\ \A h \in 1..n : answers[h] \in AnswerRows
                       /\ \A c : T!RowsOf(c) \subseteq T!Present
                       /\ T!ActiveIn(T!Present) \subseteq T!Present
  BY AnswersAre DEF TurnsKept
<1>2. answers' \in Seq(AnswerRows) /\ Len(answers') = n
      /\ \A h \in 1..n : answers'[h] = IF h = g THEN x ELSE answers[h]
  BY <1>1, ExceptSeq DEF TurnsKept, AnswersKept
<1>3. /\ \A h \in 1..n : /\ answers'[h].conversation = answers[h].conversation /\ answers'[h].key = answers[h].key
                          /\ answers'[h].body = answers[h].body /\ answers'[h].turn = answers[h].turn
                          /\ answers'[h].parent = answers[h].parent
      /\ T!Ids' = 1..n
  BY <1>1, <1>2 DEF T!Ids
<1>4. answers[g].status # "deleted" /\ g \in 1..n
  BY <1>1 DEF T!Present
<1>5. T!Present' = T!Present
  BY <1>1, <1>2, <1>3, <1>4 DEF T!Present
<1>6. \A c : T!RowsOf(c)' = T!RowsOf(c)
  BY <1>1, <1>3, <1>5 DEF T!RowsOf
<1>7. \A h \in 1..n : answers'[h].status \in T!Active => answers[h].status \in T!Active
  BY <1>2
<1>8. /\ Cardinality(T!ActiveIn(T!Present)) \in Nat
      /\ Cardinality(T!ActiveIn(T!Present))' \in Nat
      /\ Cardinality(T!ActiveIn(T!Present))' <= Cardinality(T!ActiveIn(T!Present))
  <2>1. T!ActiveIn(T!Present)' \subseteq T!ActiveIn(T!Present)
    BY <1>1, <1>5, <1>7 DEF T!ActiveIn, T!Active
  <2>2. PICK V, U : V = T!ActiveIn(T!Present) /\ U = T!ActiveIn(T!Present)'
    OBVIOUS
  <2>3. V \in SUBSET (1..n) /\ U \in SUBSET V
    BY <1>1, <2>1, <2>2
  <2> QED BY <2>2, <2>3, Counted
<1>9. ASSUME NEW V \in SUBSET T!Present, g \notin V, NEW p
      PROVE  LastDone(p, V)' <=> LastDone(p, V)
  <2>1. \A h \in V : answers'[h] = answers[h]
    BY <1>1, <1>2, <1>9
  <2> QED BY <2>1 DEF LastDone
<1>10. ASSUME NEW h \in T!Present
       PROVE  Before(h)' = Before(h) /\ g \notin Before(h) /\ Before(h) \in SUBSET T!Present
  <2>1. Before(h)' = Before(h)
    BY <1>1, <1>3, <1>6 DEF Before
  <2>2. g \notin Before(h)
    BY <1>1 DEF TurnsKept, AnswersKept, Before, T!RowsOf
  <2> QED BY <1>1, <2>1, <2>2 DEF Before
<1>11. AnswersKept'
  <2>1. (\A a, b \in T!Present : answers[a].key = answers[b].key => a = b)'
    BY <1>1, <1>3, <1>5 DEF TurnsKept, AnswersKept
  <2>2. ASSUME NEW a \in T!Present, NEW b \in T!Present, answers[a].conversation = answers[b].conversation, a < b
        PROVE  /\ answers'[a].status \notin T!Active
               /\ answers'[a].status = "completed" /\ answers'[b].status = "completed" =>
                    answers'[a].completedAt < answers'[b].completedAt
    <3>1. /\ answers[a].status \notin T!Active /\ a \in 1..n /\ b \in 1..n
          /\ answers[a].status = "completed" /\ answers[b].status = "completed" =>
               answers[a].completedAt < answers[b].completedAt
      BY <1>1, <2>2 DEF TurnsKept, AnswersKept
    <3>2. a # g /\ answers'[a] = answers[a]
      BY <1>2, <3>1
    <3>3. b = g => (x.status = "completed" => answers[a].completedAt < answers'[b].completedAt) /\ answers'[b] = x
      BY <1>1, <1>2, <3>1
    <3>4. b # g => answers'[b] = answers[b]
      BY <1>2, <3>1
    <3> QED BY <3>1, <3>2, <3>3, <3>4
  <2>3. (\A a, b \in T!Present : answers[a].conversation = answers[b].conversation /\ a < b =>
          /\ answers[a].status \notin T!Active
          /\ answers[a].status = "completed" /\ answers[b].status = "completed" =>
               answers[a].completedAt < answers[b].completedAt)'
    BY <1>1, <1>3, <1>5, <2>2 DEF T!Active
  <2>4. (Cardinality(T!ActiveIn(T!Present)) <= UserLimit)'
    BY <1>8, ServicesAssumption DEF TurnsKept, AnswersKept
  <2>5. ASSUME NEW h \in T!Present
        PROVE  (answers[h].turn = Cardinality(Before(h)) + 1 /\ LastDone(answers[h].parent, Before(h)))'
    <3>1. h \in 1..n /\ answers[h].turn = Cardinality(Before(h)) + 1 /\ LastDone(answers[h].parent, Before(h))
      BY <1>1 DEF TurnsKept, AnswersKept
    <3>2. PICK V, p : V = Before(h) /\ p = answers[h].parent
      OBVIOUS
    <3>3. LastDone(p, V)'
      BY <1>9, <1>10, <3>1, <3>2
    <3>4. V = Before(h)' /\ p = answers'[h].parent /\ answers'[h].turn = answers[h].turn
      BY <1>3, <1>10, <3>1, <3>2
    <3>5. LastDone(answers[h].parent, Before(h))'
      BY <3>3, <3>4 DEF LastDone
    <3> QED BY <3>1, <3>2, <3>4, <3>5
  <2> QED BY <1>2, <1>5, <2>1, <2>3, <2>4, <2>5 DEF AnswersKept
<1>12. ASSUME NEW r \in Requests PROVE QuestionKept(r)'
  <2>1. QuestionKept(r) /\ requests'[r] = requests[r]
    BY DEF TurnsKept
  <2> SUFFICES ASSUME requests[r] # None PROVE QuestionKept(r)'
    BY <2>1 DEF QuestionKept
  <2>2. PICK q : q = requests[r]
    OBVIOUS
  <2>3. q.at \in {"unique", "idle", "admitted"} => \A h \in T!Present' : answers'[h].key # q.key
    BY <1>1, <1>3, <1>5, <2>1, <2>2 DEF QuestionKept
  <2>4. q.at \in {"idle", "admitted"} =>
          q.conversation \in open' /\ \A h \in T!RowsOf(q.conversation)' : answers'[h].status \notin T!Active
    BY <1>1, <1>6, <1>7, <2>1, <2>2 DEF QuestionKept
  <2>5. q.at = "admitted" => Cardinality(T!ActiveIn(T!Present))' < UserLimit
    BY <1>8, <2>1, <2>2, ServicesAssumption DEF QuestionKept
  <2>6. q.at = "admitted" => LastDone(q.parent, T!RowsOf(q.conversation))'
    <3> SUFFICES ASSUME q.at = "admitted" PROVE LastDone(q.parent, T!RowsOf(q.conversation))'
      OBVIOUS
    <3>1. g \notin T!RowsOf(q.conversation) /\ LastDone(q.parent, T!RowsOf(q.conversation))
      BY <2>1, <2>2 DEF QuestionKept
    <3>2. PICK V, p : V = T!RowsOf(q.conversation) /\ p = q.parent
      OBVIOUS
    <3>3. LastDone(p, V)'
      BY <1>1, <1>9, <3>1, <3>2
    <3>4. V = T!RowsOf(q.conversation)'
      BY <1>6, <3>2
    <3> QED BY <3>2, <3>3, <3>4 DEF LastDone
  <2>7. q.at = "answered" => q.reply \in T!Ids' /\ T!SameRequest(q.reply, q)' /\ answers'[q.reply].key = q.key
    BY <1>1, <1>3, <2>1, <2>2 DEF QuestionKept, T!SameRequest
  <2> QED BY <2>1, <2>2, <2>3, <2>4, <2>5, <2>6, <2>7 DEF QuestionKept, T!Active, T!SameRequest
<1> QED BY <1>11, <1>12 DEF TurnsKept

(* A conversation goes with its answers. *)
LEMMA RemoveStep ==
  ASSUME TurnsKept, NEW c \in Conversations, T!Remove(c)
  PROVE  TurnsKept'
<1>1. PICK n \in Nat : /\ n = Len(answers) /\ T!Ids = 1..n /\ T!Present \subseteq 1..n
                       /\ \A h \in 1..n : answers[h] \in AnswerRows
                       /\ \A d : T!RowsOf(d) \subseteq T!Present
                       /\ T!ActiveIn(T!Present) \subseteq T!Present
  BY AnswersAre DEF TurnsKept
<1>2. /\ answers' = [h \in 1..n |-> IF answers[h].conversation = c THEN [answers[h] EXCEPT !.status = "deleted"]
                                                                ELSE answers[h]]
      /\ open' = open \ {c} /\ conversationLock[c] = None
      /\ UNCHANGED <<userLock, conversationLock, requests>>
  BY <1>1 DEF T!Remove
<1>3. ASSUME NEW h \in 1..n
      PROVE  /\ answers'[h] \in AnswerRows
             /\ answers'[h].conversation = answers[h].conversation /\ answers'[h].key = answers[h].key
             /\ answers'[h].body = answers[h].body /\ answers'[h].turn = answers[h].turn
             /\ answers'[h].parent = answers[h].parent
             /\ answers[h].conversation = c => answers'[h].status = "deleted"
             /\ answers[h].conversation # c => answers'[h] = answers[h]
  <2>1. answers[h] \in AnswerRows
    BY <1>1
  <2>2. CASE answers[h].conversation = c
    <3>1. answers'[h] = [answers[h] EXCEPT !.status = "deleted"]
      BY <1>2, <2>2
    <3> QED BY <2>1, <2>2, <3>1 DEF AnswerRows
  <2>3. CASE answers[h].conversation # c
    BY <1>2, <2>1, <2>3
  <2> QED BY <2>2, <2>3
<1>4. answers' \in Seq(AnswerRows) /\ Len(answers') = n /\ T!Ids' = 1..n
  <2>1. answers' \in [1..n -> AnswerRows]
    BY <1>2, <1>3
  <2>2. answers' \in Seq(AnswerRows) /\ DOMAIN answers' = 1..n
    BY <2>1
  <2> QED BY <2>2 DEF T!Ids
<1>5. T!Present' = {h \in T!Present : answers[h].conversation # c}
  BY <1>1, <1>3, <1>4 DEF T!Present
<1>6. \A d : d # c => T!RowsOf(d)' = T!RowsOf(d)
  BY <1>1, <1>3, <1>5 DEF T!RowsOf
<1>7. \A h \in T!Present' : h \in T!Present /\ h \in 1..n /\ answers'[h] = answers[h] /\ answers[h].conversation # c
  BY <1>1, <1>3, <1>5
<1>8. /\ Cardinality(T!ActiveIn(T!Present)) \in Nat
      /\ Cardinality(T!ActiveIn(T!Present))' \in Nat
      /\ Cardinality(T!ActiveIn(T!Present))' <= Cardinality(T!ActiveIn(T!Present))
  <2>1. T!ActiveIn(T!Present)' \subseteq T!ActiveIn(T!Present)
    BY <1>7 DEF T!ActiveIn, T!Active
  <2>2. PICK V, U : V = T!ActiveIn(T!Present) /\ U = T!ActiveIn(T!Present)'
    OBVIOUS
  <2>3. V \in SUBSET (1..n) /\ U \in SUBSET V
    BY <1>1, <2>1, <2>2
  <2> QED BY <2>2, <2>3, Counted
<1>9. ASSUME NEW d, d # c, NEW V \in SUBSET T!RowsOf(d), NEW p
      PROVE  LastDone(p, V)' <=> LastDone(p, V)
  <2>1. \A h \in V : answers'[h] = answers[h]
    BY <1>1, <1>3, <1>9 DEF T!RowsOf
  <2> QED BY <2>1 DEF LastDone
<1>10. AnswersKept'
  <2>1. (\A a, b \in T!Present : answers[a].key = answers[b].key => a = b)'
    BY <1>7 DEF TurnsKept, AnswersKept
  <2>2. (\A a, b \in T!Present : answers[a].conversation = answers[b].conversation /\ a < b =>
          /\ answers[a].status \notin T!Active
          /\ answers[a].status = "completed" /\ answers[b].status = "completed" =>
               answers[a].completedAt < answers[b].completedAt)'
    BY <1>7 DEF TurnsKept, AnswersKept, T!Active
  <2>3. (Cardinality(T!ActiveIn(T!Present)) <= UserLimit)'
    BY <1>8, ServicesAssumption DEF TurnsKept, AnswersKept
  <2>4. ASSUME NEW h \in T!Present'
        PROVE  (answers[h].turn = Cardinality(Before(h)) + 1 /\ LastDone(answers[h].parent, Before(h)))'
    <3>1. /\ answers'[h] = answers[h] /\ answers[h].conversation # c
          /\ answers[h].turn = Cardinality(Before(h)) + 1 /\ LastDone(answers[h].parent, Before(h))
      BY <1>7 DEF TurnsKept, AnswersKept
    <3>2. PICK V, p, d : V = Before(h) /\ p = answers[h].parent /\ d = answers[h].conversation
      OBVIOUS
    <3>3. V = Before(h)' /\ V \in SUBSET T!RowsOf(d)
      BY <1>6, <3>1, <3>2 DEF Before
    <3>4. LastDone(p, V)'
      BY <1>9, <3>1, <3>2, <3>3
    <3>5. LastDone(answers[h].parent, Before(h))'
      BY <3>1, <3>2, <3>3, <3>4 DEF LastDone
    <3> QED BY <3>1, <3>2, <3>3, <3>5
  <2> QED BY <1>4, <2>1, <2>2, <2>3, <2>4 DEF AnswersKept
<1>11. ASSUME NEW r \in Requests PROVE QuestionKept(r)'
  <2>1. QuestionKept(r) /\ requests'[r] = requests[r] /\ conversationLock' = conversationLock /\ userLock' = userLock
    BY <1>2 DEF TurnsKept
  <2> SUFFICES ASSUME requests[r] # None PROVE QuestionKept(r)'
    BY <2>1 DEF QuestionKept
  <2>2. PICK q : q = requests[r]
    OBVIOUS
  <2>3. q.at \in {"unique", "idle", "admitted"} => \A h \in T!Present' : answers'[h].key # q.key
    BY <1>7, <2>1, <2>2 DEF QuestionKept
  <2>4. q.at \in {"locked", "unique", "idle", "admitted"} => q.conversation # c
    BY <1>2, <2>1, <2>2, ServicesAssumption DEF QuestionKept
  <2>5. q.at \in {"idle", "admitted"} =>
          q.conversation \in open' /\ \A h \in T!RowsOf(q.conversation)' : answers'[h].status \notin T!Active
    <3> SUFFICES ASSUME q.at \in {"idle", "admitted"}
                 PROVE  q.conversation \in open' /\ \A h \in T!RowsOf(q.conversation)' : answers'[h].status \notin T!Active
      OBVIOUS
    <3>1. T!RowsOf(q.conversation)' = T!RowsOf(q.conversation) /\ q.conversation \in open'
      BY <1>2, <1>6, <2>1, <2>2, <2>4 DEF QuestionKept
    <3>2. \A h \in T!RowsOf(q.conversation) : answers'[h] = answers[h]
      BY <1>1, <1>3, <2>4 DEF T!RowsOf
    <3> QED BY <2>1, <2>2, <3>1, <3>2 DEF QuestionKept
  <2>6. q.at = "admitted" => Cardinality(T!ActiveIn(T!Present))' < UserLimit
    BY <1>8, <2>1, <2>2, ServicesAssumption DEF QuestionKept
  <2>7. q.at = "admitted" => LastDone(q.parent, T!RowsOf(q.conversation))'
    <3> SUFFICES ASSUME q.at = "admitted" PROVE LastDone(q.parent, T!RowsOf(q.conversation))'
      OBVIOUS
    <3>1. LastDone(q.parent, T!RowsOf(q.conversation))
      BY <2>1, <2>2 DEF QuestionKept
    <3>2. PICK V, p, d : V = T!RowsOf(q.conversation) /\ p = q.parent /\ d = q.conversation
      OBVIOUS
    <3>3. LastDone(p, V)'
      BY <1>9, <2>4, <3>1, <3>2
    <3>4. V = T!RowsOf(q.conversation)'
      BY <1>6, <2>4, <3>2
    <3> QED BY <3>2, <3>3, <3>4 DEF LastDone
  <2>8. q.at = "answered" => q.reply \in T!Ids' /\ T!SameRequest(q.reply, q)' /\ answers'[q.reply].key = q.key
    BY <1>1, <1>3, <1>4, <2>1, <2>2 DEF QuestionKept, T!SameRequest
  <2> QED BY <2>1, <2>2, <2>3, <2>5, <2>6, <2>7, <2>8 DEF QuestionKept, T!Active, T!SameRequest
<1>12. open' \subseteq Conversations
  BY <1>2 DEF TurnsKept
<1> QED BY <1>2, <1>10, <1>11, <1>12 DEF TurnsKept

(* The end of a transaction frees its locks and no others. *)
LEMMA ToldIs ==
  ASSUME TurnsKept, NEW r \in Requests, requests[r] # None, NEW end, NEW reply \in Nat,
         end \in {"answered", "refused", "lost"}, T!Told(r, end, reply)
  PROVE  /\ \A s \in Requests : s # r /\ userLock = s => userLock' = s
         /\ conversationLock' \in [Conversations -> {None} \cup Requests]
         /\ \A c \in Conversations, s \in Requests : s # r /\ conversationLock[c] = s => conversationLock'[c] = s
         /\ \E q \in Questions :
              /\ requests' = [requests EXCEPT ![r] = q]
              /\ q.at = end /\ q.reply = reply /\ q.conversation = requests[r].conversation
              /\ q.key = requests[r].key /\ q.body = requests[r].body
<1> DEFINE q == [requests[r] EXCEPT !.at = end, !.reply = reply]
<1>1. requests[r] \in Questions /\ requests' = [requests EXCEPT ![r] = q]
  BY DEF TurnsKept, T!Told
<1>2. /\ q \in Questions /\ q.at = end /\ q.reply = reply /\ q.conversation = requests[r].conversation
      /\ q.key = requests[r].key /\ q.body = requests[r].body
  BY <1>1 DEF Questions
<1> HIDE DEF q
<1>3. \A s \in Requests : s # r /\ userLock = s => userLock' = s
  BY DEF T!Told, T!Release
<1>4. /\ conversationLock' \in [Conversations -> {None} \cup Requests]
      /\ \A c \in Conversations, s \in Requests : s # r /\ conversationLock[c] = s => conversationLock'[c] = s
  BY DEF TurnsKept, T!Told, T!Release
<1> QED BY <1>1, <1>2, <1>3, <1>4

(* The turns of a conversation are as many as its answers. *)
LEMMA NextTurnIs ==
  ASSUME AnswersKept, NEW c
  PROVE  T!NextTurn(c) = Cardinality(T!RowsOf(c)) + 1 /\ Cardinality(T!RowsOf(c)) \in Nat
<1>1. PICK n \in Nat : /\ n = Len(answers) /\ T!Ids = 1..n /\ T!Present \subseteq 1..n
                       /\ \A h \in 1..n : answers[h] \in AnswerRows
                       /\ \A d : T!RowsOf(d) \subseteq T!Present
                       /\ T!ActiveIn(T!Present) \subseteq T!Present
  BY AnswersAre
<1>2. PICK V \in SUBSET (1..n) : V = T!RowsOf(c)
  BY <1>1
<1>3. PICK k \in Nat : k = Cardinality(V)
  BY Counted
<1>4. ASSUME NEW g \in V
      PROVE  /\ answers[g].turn \in Nat /\ answers[g].turn = Cardinality(Before(g)) + 1
             /\ Before(g) = {h \in V : h < g} /\ IsFiniteSet(V \ {g}) /\ Cardinality(V \ {g}) = k - 1
  <2>1. answers[g].turn \in Nat /\ g \in T!Present /\ answers[g].conversation = c
    BY <1>1, <1>2 DEF AnswerRows, T!RowsOf
  <2>2. Before(g) = {h \in V : h < g}
    BY <1>2, <2>1 DEF Before
  <2>3. IsFiniteSet(V \ {g}) /\ Cardinality(V \ {g}) = k - 1
    BY <1>3, Counted, FS_RemoveElement
  <2> QED BY <2>1, <2>2, <2>3 DEF AnswersKept
<1>5. ASSUME NEW g \in V PROVE answers[g].turn <= k
  <2>0. ~(g < g)
    OBVIOUS
  <2>1. Before(g) \in SUBSET (V \ {g})
    BY <1>4, <2>0
  <2>2. Cardinality(Before(g)) <= Cardinality(V \ {g}) /\ Cardinality(Before(g)) \in Nat
    BY <1>4, <2>1, FS_Subset, FS_CardinalityType
  <2>3. PICK a \in Nat, t \in Nat : a = Cardinality(Before(g)) /\ t = answers[g].turn
    BY <1>4, <2>2
  <2>4. a <= k - 1 /\ t = a + 1
    BY <1>4, <2>2, <2>3
  <2>5. t <= k
    BY <2>4
  <2> QED BY <2>3, <2>5
<1> DEFINE W == {0} \cup {answers[g].turn : g \in T!RowsOf(c)}
<1>6. W \in SUBSET Nat /\ \A w \in W : w <= k
  <2>1. 0 \in Nat /\ 0 <= k
    OBVIOUS
  <2>2. \A w \in W : w = 0 \/ \E g \in V : w = answers[g].turn
    BY <1>2
  <2>3. \A w \in W : w \in Nat /\ w <= k
    BY <1>4, <1>5, <2>1, <2>2
  <2> QED BY <2>3
<1>7. k \in W
  <2>1. CASE V = {}
    BY <1>3, <2>1, FS_EmptySet
  <2>2. CASE V # {}
    <3>1. PICK m \in V : \A g \in V : g <= m
      BY <2>2, Counted
    <3>2. \A g \in V : g # m <=> g < m
      BY <3>1
    <3>3. Before(m) = V \ {m}
      BY <1>4, <3>2
    <3>4. answers[m].turn = (k - 1) + 1
      BY <1>4, <3>3
    <3>5. answers[m].turn = k
      BY <3>4
    <3> QED BY <1>2, <3>5
  <2> QED BY <2>1, <2>2
<1> HIDE DEF W
<1>8. T!Max(W) = k
  BY <1>6, <1>7, MaxIs
<1>9. T!NextTurn(c) = T!Max(W) + 1
  BY DEF T!NextTurn, W
<1> QED BY <1>2, <1>3, <1>8, <1>9

(* A question gets its answer. *)
LEMMA InsertStep ==
  ASSUME TurnsKept, NEW r \in Requests, T!Insert(r)
  PROVE  TurnsKept'
<1>1. PICK n \in Nat : /\ n = Len(answers) /\ T!Ids = 1..n /\ T!Present \subseteq 1..n
                       /\ \A h \in 1..n : answers[h] \in AnswerRows
                       /\ \A d : T!RowsOf(d) \subseteq T!Present
                       /\ T!ActiveIn(T!Present) \subseteq T!Present
  BY AnswersAre DEF TurnsKept
<1>2. PICK q \in Questions : /\ q = requests[r] /\ requests[r] # None /\ q.at = "admitted"
  BY DEF T!Insert, T!At, TurnsKept
<1>3. /\ userLock = r /\ \A g \in T!Present : answers[g].key # q.key
      /\ \A g \in T!RowsOf(q.conversation) : answers[g].status \notin T!Active
      /\ Cardinality(T!ActiveIn(T!Present)) < UserLimit
      /\ LastDone(q.parent, T!RowsOf(q.conversation))
  <2>1. QuestionKept(r)
    BY DEF TurnsKept
  <2> QED BY <1>2, <2>1 DEF QuestionKept
<1>4. ~T!Clashes(q)
  BY <1>3 DEF T!Clashes, T!WithKey, T!Busy, T!ActiveIn
<1>5. answers' = Append(answers, T!Row(q)) /\ T!Told(r, "answered", n + 1) /\ open' = open
  BY <1>1, <1>2, <1>4 DEF T!Insert
<1>6. PICK c \in Conversations : c = q.conversation
  BY DEF Questions
<1>7. PICK V \in SUBSET (1..n), k \in Nat : V = T!RowsOf(c) /\ k = Cardinality(V) /\ T!NextTurn(c) = k + 1
  BY <1>1, NextTurnIs DEF TurnsKept
<1>8. PICK x \in AnswerRows : /\ x = T!Row(q) /\ x.conversation = c /\ x.key = q.key /\ x.body = q.body
                              /\ x.status = "pending" /\ x.turn = k + 1 /\ x.parent = q.parent
  <2>1. /\ T!Row(q).conversation = c /\ T!Row(q).key = q.key /\ T!Row(q).body = q.body
        /\ T!Row(q).status = "pending" /\ T!Row(q).turn = k + 1 /\ T!Row(q).parent = q.parent
    BY <1>6, <1>7 DEF T!Row
  <2>2. T!Row(q) \in AnswerRows
    <3>1. q.key \in Keys \cup ({"new"} \X Requests) /\ q.body \in Bodies /\ q.parent \in Nat
      BY DEF Questions
    <3>2. PICK t \in Nat : t = k + 1
      OBVIOUS
    <3> QED BY <1>6, <1>7, <3>1, <3>2 DEF T!Row, AnswerRows
  <2> QED BY <2>1, <2>2
<1>9. /\ answers' \in Seq(AnswerRows) /\ Len(answers') = n + 1 /\ answers'[n + 1] = x
      /\ \A h \in 1..n : answers'[h] = answers[h]
  BY <1>1, <1>5, <1>8, AppendProperties DEF TurnsKept, AnswersKept
<1>10. T!Ids' = 1..(n + 1)
  BY <1>9 DEF T!Ids
<1>11. T!Present' = T!Present \cup {n + 1}
  BY <1>1, <1>8, <1>9, <1>10 DEF T!Present
<1>12. T!RowsOf(c)' = V \cup {n + 1} /\ \A d : d # c => T!RowsOf(d)' = T!RowsOf(d)
  <2>1. \A h \in T!Present : answers'[h] = answers[h]
    BY <1>1, <1>9
  <2>2. T!RowsOf(c)' = V \cup {n + 1}
    BY <1>7, <1>8, <1>9, <1>11, <2>1 DEF T!RowsOf
  <2>3. \A d : d # c => T!RowsOf(d)' = T!RowsOf(d)
    BY <1>8, <1>9, <1>11, <2>1 DEF T!RowsOf
  <2> QED BY <2>2, <2>3
<1>13. Cardinality(T!ActiveIn(T!Present))' <= UserLimit
  <2>1. T!ActiveIn(T!Present)' = T!ActiveIn(T!Present) \cup {n + 1}
    BY <1>1, <1>8, <1>9, <1>11 DEF T!ActiveIn, T!Active
  <2>2. PICK U \in SUBSET (1..n) : U = T!ActiveIn(T!Present)
    BY <1>1
  <2>3. IsFiniteSet(U) /\ Cardinality(U) \in Nat /\ n + 1 \notin U
    <3>1. IsFiniteSet(U) /\ Cardinality(U) \in Nat
      BY Counted
    <3>2. n + 1 \notin 1..n
      OBVIOUS
    <3> QED BY <3>1, <3>2
  <2>4. Cardinality(U \cup {n + 1}) = Cardinality(U) + 1
    BY <2>3, FS_AddElement
  <2>5. PICK a \in Nat : a = Cardinality(U)
    BY <2>3
  <2> QED BY <1>3, <2>1, <2>2, <2>4, <2>5, ServicesAssumption
<1>14. ASSUME NEW U \in SUBSET (1..n), NEW p
       PROVE  LastDone(p, U)' <=> LastDone(p, U)
  <2>1. \A h \in U : answers'[h] = answers[h]
    BY <1>9
  <2> QED BY <2>1 DEF LastDone
<1>15. ASSUME NEW h \in T!Present
       PROVE  Before(h)' = Before(h) /\ Before(h) \in SUBSET (1..n) /\ answers'[h] = answers[h]
  <2>1. h \in 1..n /\ answers'[h] = answers[h]
    BY <1>1, <1>9
  <2>2. CASE answers[h].conversation = c
    BY <1>7, <1>12, <2>1, <2>2 DEF Before
  <2>3. CASE answers[h].conversation # c
    BY <1>1, <1>12, <2>1, <2>3 DEF Before
  <2> QED BY <2>1, <2>2, <2>3
<1>16. Before(n + 1)' = V
  <2>1. Before(n + 1)' = {h \in V \cup {n + 1} : h < n + 1}
    BY <1>8, <1>9, <1>12 DEF Before
  <2>2. \A h \in V : h < n + 1
    OBVIOUS
  <2>3. ~(n + 1 < n + 1)
    OBVIOUS
  <2> QED BY <2>1, <2>2, <2>3
<1>17. AnswersKept'
  <2>1. (\A a, b \in T!Present : answers[a].key = answers[b].key => a = b)'
    BY <1>3, <1>8, <1>9, <1>11, <1>15 DEF TurnsKept, AnswersKept
  <2>2. ASSUME NEW a \in T!Present', NEW b \in T!Present',
               answers'[a].conversation = answers'[b].conversation, a < b
        PROVE  /\ answers'[a].status \notin T!Active
               /\ answers'[a].status = "completed" /\ answers'[b].status = "completed" =>
                    answers'[a].completedAt < answers'[b].completedAt
    <3>1. a \in T!Present /\ a \in 1..n /\ answers'[a] = answers[a]
      BY <1>1, <1>11, <1>15, <2>2
    <3>2. CASE b \in T!Present
      BY <1>15, <2>2, <3>1, <3>2 DEF TurnsKept, AnswersKept
    <3>3. CASE b = n + 1
      <4>1. answers[a].conversation = c /\ answers'[b].status = "pending"
        BY <1>8, <1>9, <2>2, <3>1, <3>3
      <4>2. a \in T!RowsOf(c)
        BY <3>1, <4>1 DEF T!RowsOf
      <4> QED BY <1>3, <1>6, <3>1, <4>1, <4>2
    <3> QED BY <1>11, <3>2, <3>3
  <2>3. (\A a, b \in T!Present : answers[a].conversation = answers[b].conversation /\ a < b =>
          /\ answers[a].status \notin T!Active
          /\ answers[a].status = "completed" /\ answers[b].status = "completed" =>
               answers[a].completedAt < answers[b].completedAt)'
    BY <2>2 DEF T!Active
  <2>4. ASSUME NEW h \in T!Present'
        PROVE  (answers[h].turn = Cardinality(Before(h)) + 1 /\ LastDone(answers[h].parent, Before(h)))'
    <3>1. CASE h \in T!Present
      <4>1. answers[h].turn = Cardinality(Before(h)) + 1 /\ LastDone(answers[h].parent, Before(h))
        BY <3>1 DEF TurnsKept, AnswersKept
      <4>2. PICK U, p : U = Before(h) /\ p = answers[h].parent
        OBVIOUS
      <4>3. U = Before(h)' /\ p = answers'[h].parent /\ answers'[h].turn = answers[h].turn
        BY <1>15, <3>1, <4>2
      <4>4. LastDone(p, U)'
        BY <1>14, <1>15, <3>1, <4>1, <4>2
      <4>5. LastDone(answers[h].parent, Before(h))'
        BY <4>3, <4>4 DEF LastDone
      <4> QED BY <4>1, <4>2, <4>3, <4>5
    <3>2. CASE h = n + 1
      <4>1. PICK p : p = q.parent /\ LastDone(p, V)
        BY <1>3, <1>6, <1>7
      <4>2. LastDone(p, V)'
        BY <1>14, <4>1
      <4>3. answers'[h].parent = p /\ Before(h)' = V /\ answers'[h].turn = k + 1
        BY <1>8, <1>9, <1>16, <3>2, <4>1
      <4>4. LastDone(answers[h].parent, Before(h))'
        BY <4>2, <4>3 DEF LastDone
      <4> QED BY <1>7, <4>3, <4>4
    <3> QED BY <1>11, <3>1, <3>2
  <2> QED BY <1>9, <1>13, <2>1, <2>3, <2>4 DEF AnswersKept
<1>18. PICK y \in Questions :
         /\ requests' = [requests EXCEPT ![r] = y]
         /\ y.at = "answered" /\ y.reply = n + 1 /\ y.conversation = c /\ y.key = q.key /\ y.body = q.body
  BY <1>2, <1>5, <1>6, ToldIs
<1>19. /\ requests' \in [Requests -> {None} \cup Questions] /\ requests'[r] = y
       /\ \A s \in Requests : s # r => requests'[s] = requests[s]
       /\ conversationLock' \in [Conversations -> {None} \cup Requests]
  BY <1>2, <1>5, <1>18, ToldIs DEF TurnsKept
<1>20. QuestionKept(r)'
  BY <1>8, <1>9, <1>10, <1>18, <1>19 DEF QuestionKept, T!SameRequest
<1>21. ASSUME NEW s \in Requests, s # r PROVE QuestionKept(s)'
  <2>1. QuestionKept(s) /\ requests'[s] = requests[s] /\ userLock # s
    BY <1>3, <1>19, <1>21 DEF TurnsKept
  <2> SUFFICES ASSUME requests[s] # None PROVE QuestionKept(s)'
    BY <2>1 DEF QuestionKept
  <2>2. requests[s].at \notin {"user", "locked", "unique", "idle", "admitted", "clash"}
    BY <2>1 DEF QuestionKept
  <2>3. requests[s].at = "answered" => /\ requests[s].reply \in T!Ids' /\ T!SameRequest(requests[s].reply, requests[s])'
                                      /\ answers'[requests[s].reply].key = requests[s].key
    BY <1>1, <1>9, <1>10, <2>1 DEF QuestionKept, T!SameRequest
  <2> QED BY <2>1, <2>2, <2>3 DEF QuestionKept, T!SameRequest
<1> QED BY <1>5, <1>17, <1>19, <1>20, <1>21 DEF TurnsKept

(* The last answer that was completed is also the last of those. *)
LEMMA LastCompletedIs ==
  ASSUME AnswersKept, NEW c
  PROVE  T!LastCompleted(c) \in Nat /\ LastDone(T!LastCompleted(c), T!RowsOf(c))
<1>1. PICK n \in Nat : /\ n = Len(answers) /\ T!Ids = 1..n /\ T!Present \subseteq 1..n
                       /\ \A h \in 1..n : answers[h] \in AnswerRows
                       /\ \A d : T!RowsOf(d) \subseteq T!Present
                       /\ T!ActiveIn(T!Present) \subseteq T!Present
  BY AnswersAre
<1>2. PICK done \in SUBSET (1..n) : done = {g \in T!RowsOf(c) : answers[g].status = "completed"}
  BY <1>1
<1>3. CASE done = {}
  BY <1>2, <1>3 DEF T!LastCompleted, LastDone
<1>4. CASE done # {}
  <2>0. \A h \in done : h \in Nat
    OBVIOUS
  <2>1. \A g \in done : answers[g].completedAt \in Nat
    BY <1>1 DEF AnswerRows
  <2>2. ASSUME NEW g \in done, NEW h \in done, g < h PROVE answers[g].completedAt < answers[h].completedAt
    BY <1>1, <1>2, <2>2 DEF AnswersKept, T!RowsOf
  <2>3. \E g \in done : \A h \in done : answers[h].completedAt <= answers[g].completedAt
    <3>1. PICK m \in done : \A g \in done : g <= m
      BY <1>4, Counted
    <3>2. ASSUME NEW h \in done PROVE answers[h].completedAt <= answers[m].completedAt
      <4>1. PICK a \in Nat, b \in Nat : a = answers[h].completedAt /\ b = answers[m].completedAt
        BY <2>1
      <4>2. h = m \/ h < m
        BY <3>1
      <4> QED BY <2>2, <4>1, <4>2
    <3> QED BY <3>2
  <2>4. PICK p : p = T!LastCompleted(c)
    OBVIOUS
  <2>5. p = CHOOSE g \in done : \A h \in done : answers[h].completedAt <= answers[g].completedAt
    BY <1>2, <1>4, <2>4 DEF T!LastCompleted
  <2>6. p \in done /\ \A h \in done : answers[h].completedAt <= answers[p].completedAt
    BY <2>3, <2>5
  <2>7. ASSUME NEW h \in done PROVE h <= p
    <3>1. PICK a \in Nat, b \in Nat : a = answers[h].completedAt /\ b = answers[p].completedAt
      BY <2>1, <2>6
    <3>2. ~(p < h)
      BY <2>2, <2>6, <3>1
    <3>3. p \in done
      BY <2>6
    <3>4. h \in Nat /\ p \in Nat
      BY <2>0, <3>3
    <3> QED BY <3>2, <3>4
  <2>8. p \in Nat /\ p # 0 /\ p \in T!RowsOf(c) /\ answers[p].status = "completed"
    BY <1>2, <2>6
  <2>9. LastDone(p, T!RowsOf(c))
    BY <1>2, <2>7, <2>8 DEF LastDone
  <2> QED BY <2>4, <2>8, <2>9
<1> QED BY <1>3, <1>4

(* Among the moments that the clock is ahead of are those of all answers. *)
LEMMA ClockIs ==
  ASSUME AnswersKept
  PROVE  T!Clock \in Nat /\ \A g \in T!Ids : answers[g].completedAt \in Nat /\ answers[g].completedAt <= T!Clock
<1>1. PICK n \in Nat : /\ n = Len(answers) /\ T!Ids = 1..n /\ T!Present \subseteq 1..n
                       /\ \A h \in 1..n : answers[h] \in AnswerRows
                       /\ \A d : T!RowsOf(d) \subseteq T!Present
                       /\ T!ActiveIn(T!Present) \subseteq T!Present
  BY AnswersAre
<1> DEFINE At == {answers[g].completedAt : g \in T!Ids}
           f == [g \in T!Ids |-> answers[g].completedAt]
           W == {0} \cup At
<1>2. \A g \in T!Ids : answers[g].completedAt \in Nat
  BY <1>1 DEF AnswerRows
<1>3. IsFiniteSet(T!Ids)
  BY <1>1, FS_Interval
<1>4. f \in Surjection(T!Ids, At)
  BY DEF Surjection
<1>5. IsFiniteSet(At)
  BY <1>3, <1>4, FS_Surjection
<1>6. IsFiniteSet(At \cup {0})
  BY <1>5, FS_AddElement
<1>7. W \in SUBSET Nat /\ IsFiniteSet(W) /\ W # {}
  <2>1. At \in SUBSET Nat
    BY <1>2
  <2> HIDE DEF At
  <2>2. W = At \cup {0} /\ 0 \in Nat
    OBVIOUS
  <2> QED BY <1>6, <2>1, <2>2
<1>8. T!Clock = T!Max(W)
  BY DEF T!Clock
<1>9. \A g \in T!Ids : answers[g].completedAt \in W
  OBVIOUS
<1> HIDE DEF W
<1> QED BY <1>2, <1>7, <1>8, <1>9, MaxOf

LEMMA TurnsStep ==
  ASSUME TurnsKept, T!Next
  PROVE  TurnsKept'
<1>0. \A s \in Requests : s # None
  BY ServicesAssumption
(* A new request has no locks to say something of. *)
<1>1. ASSUME NEW r \in Requests, NEW c \in Conversations, NEW key \in Keys \cup ({"new"} \X Requests), NEW b \in Bodies,
             requests' = [requests EXCEPT ![r] = T!Asked(c, key, b)],
             UNCHANGED <<answers, open, userLock, conversationLock>>
      PROVE  TurnsKept'
  <2>1. PICK q \in Questions : q = T!Asked(c, key, b) /\ q.at = "asked"
    <3>1. T!Asked(c, key, b) \in Questions /\ T!Asked(c, key, b).at = "asked"
      BY DEF T!Asked, Questions
    <3> QED BY <3>1
  <2>2. requests'[r] = q
    BY <1>1, <2>1 DEF TurnsKept
  <2>3. QuestionKept(r)'
    BY <2>1, <2>2 DEF QuestionKept
  <2>4. conversationLock' \in [Conversations -> {None} \cup Requests]
    BY <1>1 DEF TurnsKept
  <2> QED BY <1>1, <2>1, <2>3, <2>4, QuestionStep
<1>2. ASSUME NEW r \in Requests, NEW c \in Conversations, NEW k \in Keys, NEW b \in Bodies, T!Ask(r, c, k, b)
      PROVE  TurnsKept'
  BY <1>1, <1>2 DEF T!Ask
<1>3. ASSUME NEW r \in Requests, NEW g \in T!Ids, T!Retry(r, g) PROVE TurnsKept'
  <2>1. answers[g] \in AnswerRows
    BY AnswersAre DEF TurnsKept
  <2>2. answers[g].conversation \in Conversations /\ answers[g].body \in Bodies
    BY <2>1 DEF AnswerRows
  <2>3. <<"new", r>> \in {"new"} \X Requests
    OBVIOUS
  <2> QED BY <1>1, <1>3, <2>2, <2>3 DEF T!Retry
(* A request goes to another place. *)
<1>4. ASSUME NEW r \in Requests, requests[r] # None,
             NEW there \in {"user", "locked", "unique", "idle"}, T!Go(r, there)
      PROVE  /\ QuestionKept(r)
             /\ \E q \in Questions :
                  /\ requests' = [requests EXCEPT ![r] = q] /\ requests'[r] = q /\ q.at = there
                  /\ q.conversation = requests[r].conversation /\ q.key = requests[r].key
                  /\ q.body = requests[r].body /\ q.reply = requests[r].reply /\ q.parent = requests[r].parent
                  /\ q.conversation \in Conversations
  <2> DEFINE q == [requests[r] EXCEPT !.at = there]
  <2>1. requests[r] \in Questions /\ QuestionKept(r)
    BY <1>4 DEF TurnsKept
  <2>2. /\ q \in Questions /\ q.at = there
        /\ q.conversation = requests[r].conversation /\ q.key = requests[r].key
        /\ q.body = requests[r].body /\ q.reply = requests[r].reply /\ q.parent = requests[r].parent
        /\ q.conversation \in Conversations
    BY <2>1 DEF Questions
  <2>3. requests' = [requests EXCEPT ![r] = q]
    BY <1>4 DEF T!Go
  <2> HIDE DEF q
  <2>4. requests'[r] = q
    BY <2>3 DEF TurnsKept
  <2> QED BY <2>1, <2>2, <2>3, <2>4
<1>5. ASSUME NEW r \in Requests, T!LockUser(r) PROVE TurnsKept'
  <2>1. requests[r] # None /\ userLock = None /\ userLock' = r /\ T!Go(r, "user")
        /\ UNCHANGED <<answers, open, conversationLock>>
    BY <1>5 DEF T!LockUser, T!At, T!UserFree
  <2>2. PICK q \in Questions : requests' = [requests EXCEPT ![r] = q] /\ requests'[r] = q /\ q.at = "user"
    BY <1>4, <2>1
  <2>3. QuestionKept(r)'
    BY <2>1, <2>2 DEF QuestionKept
  <2>4. conversationLock' \in [Conversations -> {None} \cup Requests]
    BY <2>1 DEF TurnsKept
  <2> QED BY <1>0, <2>1, <2>2, <2>3, <2>4, QuestionStep
<1>6. ASSUME NEW r \in Requests, T!LockConversation(r) PROVE TurnsKept'
  <2>1. /\ requests[r] # None /\ requests[r].at = "user" /\ T!Go(r, "locked")
        /\ conversationLock[requests[r].conversation] = None
        /\ conversationLock' = [conversationLock EXCEPT ![requests[r].conversation] = r]
        /\ UNCHANGED <<answers, open, userLock>>
    BY <1>6 DEF T!LockConversation, T!At
  <2>2. PICK q \in Questions : /\ requests' = [requests EXCEPT ![r] = q] /\ requests'[r] = q /\ q.at = "locked"
                               /\ q.conversation = requests[r].conversation /\ q.conversation \in Conversations
    BY <1>4, <2>1
  <2>3. QuestionKept(r)
    BY <1>4, <2>1
  <2>4. userLock = r
    BY <2>1, <2>3 DEF QuestionKept
  <2>5. conversationLock' = [conversationLock EXCEPT ![q.conversation] = r] /\ conversationLock[q.conversation] = None
    BY <2>1, <2>2
  <2>6. /\ conversationLock' \in [Conversations -> {None} \cup Requests]
        /\ conversationLock'[q.conversation] = r
        /\ \A c \in Conversations, s \in Requests : s # r /\ conversationLock[c] = s => conversationLock'[c] = s
    BY <1>0, <2>2, <2>5 DEF TurnsKept
  <2>7. QuestionKept(r)'
    BY <2>1, <2>2, <2>4, <2>6 DEF QuestionKept
  <2> QED BY <2>1, <2>2, <2>6, <2>7, QuestionStep
(* Locks stay with a request that has them and finds something out. *)
<1>7. ASSUME NEW r \in Requests, NEW q \in Questions, requests' = [requests EXCEPT ![r] = q], QuestionKept(r)',
             UNCHANGED <<answers, open, userLock, conversationLock>>
      PROVE  TurnsKept'
  <2>1. conversationLock' \in [Conversations -> {None} \cup Requests]
    BY <1>7 DEF TurnsKept
  <2> QED BY <1>7, <2>1, QuestionStep
<1>8. ASSUME NEW r \in Requests, T!FirstUse(r) PROVE TurnsKept'
  <2>1. /\ requests[r] # None /\ requests[r].at = "locked" /\ T!Go(r, "unique")
        /\ \A g \in T!Present : answers[g].key # requests[r].key
        /\ UNCHANGED <<answers, open, userLock, conversationLock>>
    BY <1>8 DEF T!FirstUse, T!At, T!WithKey
  <2>2. PICK q \in Questions : /\ requests' = [requests EXCEPT ![r] = q] /\ requests'[r] = q /\ q.at = "unique"
                               /\ q.conversation = requests[r].conversation /\ q.key = requests[r].key
    BY <1>4, <2>1
  <2>3. QuestionKept(r)
    BY <1>4, <2>1
  <2>4. userLock = r /\ conversationLock[q.conversation] = r
    BY <2>1, <2>2, <2>3 DEF QuestionKept
  <2>5. \A g \in T!Present' : answers'[g].key # q.key
    BY <2>1, <2>2 DEF T!Present, T!Ids
  <2>6. QuestionKept(r)'
    BY <2>1, <2>2, <2>4, <2>5 DEF QuestionKept
  <2> QED BY <1>7, <2>1, <2>2, <2>6
<1>9. ASSUME NEW r \in Requests, T!ConversationIdle(r) PROVE TurnsKept'
  <2>1. /\ requests[r] # None /\ requests[r].at = "unique" /\ T!Go(r, "idle")
        /\ requests[r].conversation \in open /\ ~T!Busy(requests[r].conversation)
        /\ UNCHANGED <<answers, open, userLock, conversationLock>>
    BY <1>9 DEF T!ConversationIdle, T!At
  <2>2. PICK q \in Questions : /\ requests' = [requests EXCEPT ![r] = q] /\ requests'[r] = q /\ q.at = "idle"
                               /\ q.conversation = requests[r].conversation /\ q.key = requests[r].key
    BY <1>4, <2>1
  <2>3. QuestionKept(r)
    BY <1>4, <2>1
  <2>4. userLock = r /\ conversationLock[q.conversation] = r /\ \A g \in T!Present : answers[g].key # q.key
    BY <2>1, <2>2, <2>3 DEF QuestionKept
  <2>5. \A g \in T!RowsOf(q.conversation) : answers[g].status \notin T!Active
    BY <2>1, <2>2 DEF T!Busy, T!ActiveIn
  <2>6. /\ \A g \in T!Present' : answers'[g].key # q.key
        /\ \A g \in T!RowsOf(q.conversation)' : answers'[g].status \notin T!Active
    BY <2>1, <2>4, <2>5 DEF T!Present, T!Ids, T!RowsOf
  <2>7. QuestionKept(r)'
    BY <2>1, <2>2, <2>4, <2>6 DEF QuestionKept, T!Active
  <2> QED BY <1>7, <2>1, <2>2, <2>7
<1>10. ASSUME NEW r \in Requests, T!Admit(r) PROVE TurnsKept'
  <2>1. /\ requests[r] # None /\ requests[r].at = "idle" /\ Cardinality(T!ActiveIn(T!Present)) < UserLimit
        /\ UNCHANGED <<answers, open, userLock, conversationLock>>
    BY <1>10, SameCount DEF T!Admit, T!At
  <2>0. PICK c : c = requests[r].conversation
    OBVIOUS
  <2>2. PICK p \in Nat : p = T!LastCompleted(c) /\ LastDone(p, T!RowsOf(c))
    BY LastCompletedIs DEF TurnsKept
  <2> DEFINE q == [requests[r] EXCEPT !.at = "admitted", !.parent = p]
  <2>3. requests' = [requests EXCEPT ![r] = q]
    BY <1>10, <2>0, <2>2 DEF T!Admit
  <2>4. requests[r] \in Questions /\ QuestionKept(r)
    BY <2>1 DEF TurnsKept
  <2>5. q \in Questions /\ q.at = "admitted" /\ q.parent = p /\ q.conversation = c /\ q.key = requests[r].key
    BY <2>0, <2>2, <2>4 DEF Questions
  <2> HIDE DEF q
  <2>6. requests'[r] = q
    BY <2>3 DEF TurnsKept
  <2>7. /\ userLock = r /\ conversationLock[c] = r /\ c \in open
        /\ \A g \in T!Present : answers[g].key # q.key
        /\ \A g \in T!RowsOf(c) : answers[g].status \notin T!Active
    BY <2>0, <2>1, <2>4, <2>5 DEF QuestionKept
  <2>8. /\ \A g \in T!Present' : answers'[g].key # q.key
        /\ \A g \in T!RowsOf(c)' : answers'[g].status \notin T!Active
        /\ Cardinality(T!ActiveIn(T!Present))' < UserLimit
        /\ LastDone(p, T!RowsOf(c))'
    BY <2>1, <2>2, <2>7 DEF T!Present, T!Ids, T!RowsOf, T!ActiveIn, LastDone
  <2>9. QuestionKept(r)'
    BY <2>1, <2>5, <2>6, <2>7, <2>8 DEF QuestionKept, T!Active, LastDone, T!RowsOf, T!Present, T!Ids
  <2> QED BY <1>7, <2>1, <2>3, <2>5, <2>9
(* A request that was told something has no locks any more. *)
<1>11. ASSUME NEW r \in Requests, requests[r] # None, NEW end \in {"refused", "lost"}, T!Told(r, end, 0),
              UNCHANGED <<answers, open>>
       PROVE  TurnsKept'
  <2>1. PICK q \in Questions : requests' = [requests EXCEPT ![r] = q] /\ q.at = end
    BY <1>11, ToldIs
  <2>2. requests'[r] = q
    BY <2>1 DEF TurnsKept
  <2>3. QuestionKept(r)'
    BY <2>1, <2>2 DEF QuestionKept
  <2>4. /\ \A s \in Requests : s # r /\ userLock = s => userLock' = s
        /\ conversationLock' \in [Conversations -> {None} \cup Requests]
        /\ \A c \in Conversations, s \in Requests : s # r /\ conversationLock[c] = s => conversationLock'[c] = s
    BY <1>11, ToldIs
  <2> QED BY <1>11, <2>1, <2>3, <2>4, QuestionStep
<1>12. ASSUME NEW r \in Requests, T!Repeat(r) PROVE TurnsKept'
  <2>1. PICK g \in T!WithKey(requests[r].key) :
          IF T!SameRequest(g, requests[r]) THEN T!Told(r, "answered", g) ELSE T!Told(r, "refused", 0)
    BY <1>12 DEF T!Repeat
  <2>2. requests[r] # None /\ UNCHANGED <<answers, open>> /\ g \in T!Ids /\ answers[g].key = requests[r].key /\ g \in Nat
    BY <1>12, AnswersAre DEF T!Repeat, T!At, T!WithKey, T!Present, TurnsKept
  <2>3. CASE T!SameRequest(g, requests[r])
    <3>1. T!Told(r, "answered", g)
      BY <2>1, <2>3
    <3>2. PICK q \in Questions :
            /\ requests' = [requests EXCEPT ![r] = q]
            /\ q.at = "answered" /\ q.reply = g /\ q.conversation = requests[r].conversation
            /\ q.key = requests[r].key /\ q.body = requests[r].body
      BY <2>2, <3>1, ToldIs
    <3>3. requests'[r] = q
      BY <3>2 DEF TurnsKept
    <3>4. g \in T!Ids' /\ T!SameRequest(g, q)' /\ answers'[g].key = q.key
      BY <2>2, <2>3, <3>2 DEF T!SameRequest, T!Ids
    <3>5. QuestionKept(r)'
      BY <3>2, <3>3, <3>4 DEF QuestionKept, T!SameRequest
    <3>6. /\ \A s \in Requests : s # r /\ userLock = s => userLock' = s
          /\ conversationLock' \in [Conversations -> {None} \cup Requests]
          /\ \A c \in Conversations, s \in Requests : s # r /\ conversationLock[c] = s => conversationLock'[c] = s
      BY <2>2, <3>1, ToldIs
    <3> QED BY <2>2, <3>2, <3>5, <3>6, QuestionStep
  <2>4. CASE ~T!SameRequest(g, requests[r])
    BY <1>11, <2>1, <2>2, <2>4
  <2> QED BY <2>3, <2>4
<1>13. ASSUME NEW r \in Requests, T!Refuse(r) \/ T!Die(r) PROVE TurnsKept'
  BY <1>11, <1>13 DEF T!Refuse, T!Die, T!At
<1>14. ASSUME NEW g \in T!Ids, T!Cancel(g) PROVE TurnsKept'
  <2> DEFINE x == [answers[g] EXCEPT !.status = "cancel_requested"]
  <2>1. answers[g] \in AnswerRows /\ g \in T!Present /\ answers[g].status \in T!Active
    BY <1>14, AnswersAre DEF T!Cancel, TurnsKept, T!Active
  <2>2. /\ x \in AnswerRows /\ x.conversation = answers[g].conversation /\ x.key = answers[g].key
        /\ x.body = answers[g].body /\ x.turn = answers[g].turn /\ x.parent = answers[g].parent
        /\ x.status = "cancel_requested"
    BY <2>1 DEF AnswerRows
  <2>3. answers' = [answers EXCEPT ![g] = x] /\ UNCHANGED <<open, userLock, conversationLock, requests>>
    BY <1>14 DEF T!Cancel
  <2> HIDE DEF x
  <2> QED BY <2>1, <2>2, <2>3, StatusStep
<1>15. ASSUME NEW g \in T!Ids, NEW v \in {"completed", "failed", "cancelled"}, T!Finish(g, v) PROVE TurnsKept'
  <2>1. PICK t \in Nat : /\ t = IF v = "completed" THEN T!Clock + 1 ELSE 0
                         /\ v = "completed" => \A h \in T!Ids : answers[h].completedAt < t
    <3>1. PICK k \in Nat : k = T!Clock /\ \A h \in T!Ids : answers[h].completedAt \in Nat /\ answers[h].completedAt <= k
      BY ClockIs DEF TurnsKept
    <3>2. \A h \in T!Ids : answers[h].completedAt < k + 1
      BY <3>1
    <3> QED BY <3>1, <3>2
  <2> DEFINE x == [answers[g] EXCEPT !.status = v, !.completedAt = t]
  <2>2. answers[g] \in AnswerRows /\ g \in T!Present /\ answers[g].status \in T!Active
    BY <1>15, AnswersAre DEF T!Finish, T!ActiveIn, TurnsKept
  <2>3. /\ x \in AnswerRows /\ x.conversation = answers[g].conversation /\ x.key = answers[g].key
        /\ x.body = answers[g].body /\ x.turn = answers[g].turn /\ x.parent = answers[g].parent
        /\ x.status = v /\ x.completedAt = t
    BY <2>2 DEF AnswerRows
  <2>4. answers' = [answers EXCEPT ![g] = x] /\ UNCHANGED <<open, userLock, conversationLock, requests>>
    BY <1>15, <2>1 DEF T!Finish
  <2> HIDE DEF x
  <2> QED BY <2>1, <2>2, <2>3, <2>4, StatusStep
<1>16. ASSUME NEW r \in Requests,
              T!LockUser(r) \/ T!LockConversation(r) \/ T!Repeat(r) \/ T!FirstUse(r) \/ T!Refuse(r)
                \/ T!ConversationIdle(r) \/ T!Admit(r) \/ T!Insert(r) \/ T!Die(r)
       PROVE  TurnsKept'
  BY <1>5, <1>6, <1>8, <1>9, <1>10, <1>12, <1>13, <1>16, InsertStep
<1> QED BY <1>2, <1>3, <1>14, <1>15, <1>16, RemoveStep DEF T!Next

(* createTurn and retry: a key names one answer, no request fails on a       *)
(* unique index, turns are numbered without gap behind the last completed    *)
(* one, and no user exceeds the limit, for any requests, keys, users,        *)
(* conversations and limit.                                                  *)
THEOREM AnswersStayInOrder == AllSpec => []AnswersInOrder
<1>1. AllInit => (part = "turns" => TurnsKept)
  BY TurnsInit DEF AllInit
<1>2. (part = "turns" => TurnsKept) /\ [AllNext]_all => (part = "turns" => TurnsKept)'
  <2>1. TurnsKept /\ UNCHANGED turns => TurnsKept'
    <3> SUFFICES ASSUME TurnsKept, UNCHANGED turns PROVE TurnsKept'
      OBVIOUS
    <3>1. /\ answers' = answers /\ open' = open /\ userLock' = userLock
          /\ conversationLock' = conversationLock /\ requests' = requests
      BY DEF turns
    <3>0. /\ T!Ids' = T!Ids /\ T!Present' = T!Present /\ (\A c : T!RowsOf(c)' = T!RowsOf(c))
          /\ T!ActiveIn(T!Present)' = T!ActiveIn(T!Present)
      BY <3>1 DEF T!Ids, T!Present, T!RowsOf, T!ActiveIn
    <3>2. AnswersKept'
      BY <3>0, <3>1 DEF TurnsKept, AnswersKept, Before, LastDone
    <3>3. \A r \in Requests : QuestionKept(r)'
      BY <3>0, <3>1 DEF TurnsKept, QuestionKept, LastDone, T!SameRequest
    <3> QED BY <3>1, <3>2, <3>3 DEF TurnsKept
  <2> QED BY <2>1, PartStep, TurnsStep
<1>3. TurnsKept => T!KeyNamesOneAnswer
  <2> SUFFICES ASSUME TurnsKept PROVE T!KeyNamesOneAnswer
    OBVIOUS
  <2>1. \A r \in Requests : ~T!At(r, "clash")
    BY DEF TurnsKept, QuestionKept, T!At
  <2>2. \A r \in Requests : T!Answered(r) =>
          T!SameRequest(requests[r].reply, requests[r]) /\ answers[requests[r].reply].key = requests[r].key
    BY DEF TurnsKept, QuestionKept, T!At, T!Answered
  <2>3. ASSUME NEW r \in Requests, NEW s \in Requests, T!Answered(r), T!Answered(s),
               requests[r].key = requests[s].key, requests[r].reply # requests[s].reply
        PROVE  ~({requests[r].reply, requests[s].reply} \subseteq T!Present)
    BY <2>2, <2>3 DEF TurnsKept, AnswersKept
  <2> QED BY <2>1, <2>2, <2>3 DEF T!KeyNamesOneAnswer
<1>4. TurnsKept => T!TurnsFollow
  <2> SUFFICES ASSUME TurnsKept PROVE T!TurnsFollow
    OBVIOUS
  <2>1. ASSUME NEW g \in T!Present
        PROVE  LET before == {h \in T!RowsOf(answers[g].conversation) : h < g}
               IN  /\ answers[g].turn = Cardinality(before) + 1
                   /\ answers[g].parent = T!Max({0} \cup {h \in before : answers[h].status = "completed"})
    <3>1. PICK V, p : V = Before(g) /\ p = answers[g].parent /\ LastDone(p, V) /\ answers[g].turn = Cardinality(V) + 1
      BY DEF TurnsKept, AnswersKept
    <3>2. V \in SUBSET Nat
      BY <3>1, AnswersAre DEF TurnsKept, Before
    <3> DEFINE W == {0} \cup {h \in V : answers[h].status = "completed"}
    <3>3. W \in SUBSET Nat /\ p \in W /\ \A h \in W : h <= p
      BY <3>1, <3>2 DEF LastDone
    <3>4. T!Max(W) = p
      BY <3>3, MaxIs
    <3> QED BY <3>1, <3>4 DEF Before
  <2>2. Cardinality(T!ActiveIn(T!Present)) <= UserLimit
    BY DEF TurnsKept, AnswersKept
  <2> QED BY <2>1, <2>2, SameCount DEF T!TurnsFollow
<1>5. (part = "turns" => TurnsKept) => AnswersInOrder
  BY <1>3, <1>4 DEF AnswersInOrder
<1> QED BY <1>1, <1>2, <1>5, PTL DEF AllSpec

-----------------------------------------------------------------------------
(* Sums over finite sets *)

(* Among subsets of a finite set there is one with no other inside it. *)
LEMMA SmallestOf ==
  ASSUME NEW V, IsFiniteSet(V), NEW W \in SUBSET (SUBSET V), W # {}
  PROVE  \E U \in W : IsFiniteSet(U) /\ \A x \in U : U \ {x} \notin W
<1> DEFINE C == {Cardinality(U) : U \in W}
<1>1. \A U \in SUBSET V : IsFiniteSet(U) /\ Cardinality(U) \in Nat
  BY FS_Subset, FS_CardinalityType
<1>2. C \in SUBSET Nat /\ C # {}
  BY <1>1
<1>3. PICK c \in C : \A d \in C : c <= d
  BY <1>2, LeastOf
<1>4. PICK U \in W : c = Cardinality(U)
  OBVIOUS
<1>5. ASSUME NEW x \in U, U \ {x} \in W PROVE FALSE
  <2>1. Cardinality(U \ {x}) = Cardinality(U) - 1
    BY <1>1, FS_RemoveElement
  <2>2. Cardinality(U) <= Cardinality(U \ {x})
    BY <1>3, <1>4, <1>5
  <2>3. PICK n \in Nat : n = Cardinality(U)
    BY <1>1
  <2> QED BY <2>1, <2>2, <2>3
<1> QED BY <1>1, <1>5

LEMMA ImageIsFinite ==
  ASSUME NEW V, IsFiniteSet(V), NEW g
  PROVE  IsFiniteSet({g[x] : x \in V})
<1> DEFINE f == [x \in V |-> g[x]]
           N == {g[x] : x \in V}
<1>1. f \in Surjection(V, N)
  BY DEF Surjection
<1> HIDE DEF f, N
<1>2. IsFiniteSet(N)
  BY <1>1, FS_Surjection
<1> QED BY <1>2 DEF N

AnyOf(U) == CHOOSE x \in U : TRUE

SumFrom(f, U, h) == IF U = {} THEN 0 ELSE f[AnyOf(U)] + h[U \ {AnyOf(U)}]

LEMMA SumExists ==
  ASSUME NEW f, NEW V, IsFiniteSet(V)
  PROVE  \E h : h = [U \in SUBSET V |-> SumFrom(f, U, h)]
<1> DEFINE Sets(k) == {U \in SUBSET V : Cardinality(U) <= k}
           Has(k) == \E h : h = [U \in Sets(k) |-> SumFrom(f, U, h)]
           W == {k \in Nat : ~Has(k)}
<1>0. /\ \A U \in SUBSET V : IsFiniteSet(U) /\ Cardinality(U) \in Nat
      /\ \A U \in SUBSET V : Cardinality(U) <= Cardinality(V)
  BY FS_Subset, FS_CardinalityType
<1>1. \A U \in SUBSET V : U # {} =>
        /\ AnyOf(U) \in U /\ U \ {AnyOf(U)} \in SUBSET V
        /\ Cardinality(U \ {AnyOf(U)}) = Cardinality(U) - 1
  BY <1>0, FS_RemoveElement DEF AnyOf
<1>2. ASSUME W # {} PROVE FALSE
  <2>1. W \in SUBSET Nat
    OBVIOUS
  <2>2. PICK k \in W : \A j \in W : k <= j
    BY <1>2, <2>1, LeastOf
  <2>3. CASE k = 0
    <3> DEFINE h == [U \in Sets(0) |-> 0]
    <3>1. \A U \in Sets(0) : U = {}
      BY <1>0, FS_EmptySet
    <3>2. h = [U \in Sets(0) |-> SumFrom(f, U, h)]
      BY <3>1 DEF SumFrom
    <3>3. Has(0)
      BY <3>2
    <3> QED BY <2>2, <2>3, <3>3
  <2>4. CASE k # 0
    <3>1. k - 1 \in Nat /\ ~(k <= k - 1)
      BY <2>2, <2>4
    <3>2. Has(k - 1)
      BY <2>2, <3>1
    <3>3. PICK g : g = [U \in Sets(k - 1) |-> SumFrom(f, U, g)]
      BY <3>2
    <3> DEFINE h == [U \in Sets(k) |-> SumFrom(f, U, g)]
    <3>4. \A U \in Sets(k) : U \in SUBSET V /\ (U # {} => U \ {AnyOf(U)} \in Sets(k - 1))
      BY <1>0, <1>1, <2>2
    <3>5. \A U \in Sets(k - 1) : U \in Sets(k) /\ g[U] = SumFrom(f, U, g) /\ h[U] = SumFrom(f, U, g)
      BY <1>0, <2>2, <3>3
    <3> HIDE DEF Sets
    <3>6. \A U \in Sets(k) : SumFrom(f, U, g) = SumFrom(f, U, h)
      BY <3>4, <3>5 DEF SumFrom
    <3>7. h = [U \in Sets(k) |-> SumFrom(f, U, h)]
      BY <3>6
    <3>8. Has(k)
      BY <3>7
    <3> QED BY <2>2, <3>8
  <2> QED BY <2>3, <2>4
<1>3. Has(Cardinality(V))
  BY <1>0, <1>2
<1>4. Sets(Cardinality(V)) = SUBSET V
  BY <1>0
<1> HIDE DEF Sets
<1> QED BY <1>3, <1>4

Sums(f, V, h) == \A U \in SUBSET V : h[U] = SumFrom(f, U, h)

LEMMA SumHas ==
  ASSUME NEW f, NEW V, IsFiniteSet(V)
  PROVE  \E h : Sums(f, V, h) /\ X!SumFunctionOnSet(f, V) = h[V]
<1> DEFINE Is(h) == h = [U \in SUBSET V |-> SumFrom(f, U, h)]
           h == CHOOSE h : Is(h)
<1>1. Is(h)
  BY SumExists
<1>2. X!SumFunctionOnSet(f, V) = h[V]
  BY DEF X!SumFunctionOnSet, X!FoldFunctionOnSet, X!MapThenFoldSet, SumFrom, AnyOf
<1> HIDE DEF h
<1>3. Sums(f, V, h)
  BY <1>1 DEF Sums
<1> QED BY <1>2, <1>3

LEMMA SumIs ==
  ASSUME NEW f, NEW V, IsFiniteSet(V), NEW g, NEW h, Sums(f, V, g), Sums(f, V, h)
  PROVE  \A U \in SUBSET V : g[U] = h[U]
<1> DEFINE W == {U \in SUBSET V : g[U] # h[U]}
<1>1. SUFFICES ASSUME W # {} PROVE FALSE
  BY <1>1
<1>2. PICK U \in W : \A x \in U : U \ {x} \notin W
  BY <1>1, SmallestOf
<1>3. CASE U = {}
  BY <1>2, <1>3 DEF Sums, SumFrom
<1>4. CASE U # {}
  <2>1. AnyOf(U) \in U /\ U \ {AnyOf(U)} \in SUBSET V
    BY <1>2, <1>4 DEF AnyOf
  <2>2. g[U \ {AnyOf(U)}] = h[U \ {AnyOf(U)}]
    BY <1>2, <2>1
  <2>3. g[U] = SumFrom(f, U, g) /\ h[U] = SumFrom(f, U, h)
    BY <1>2 DEF Sums
  <2>4. g[U] # h[U]
    BY <1>2
  <2> QED BY <2>2, <2>3, <2>4 DEF SumFrom
<1> QED BY <1>3, <1>4

Total(f, V) == X!SumFunctionOnSet(f, V)

LEMMA TotalOf ==
  ASSUME NEW f, NEW V, IsFiniteSet(V), NEW h, Sums(f, V, h)
  PROVE  \A U \in SUBSET V : Total(f, U) = h[U]
<1>1. TAKE U \in SUBSET V
<1>2. IsFiniteSet(U) /\ Sums(f, U, h)
  BY FS_Subset DEF Sums
<1>3. PICK g : Sums(f, U, g) /\ X!SumFunctionOnSet(f, U) = g[U]
  BY <1>2, SumHas
<1>4. g[U] = h[U]
  BY <1>2, <1>3, SumIs
<1> QED BY <1>3, <1>4 DEF Total

LEMMA TotalFrom ==
  ASSUME NEW f, NEW V, IsFiniteSet(V)
  PROVE  /\ Total(f, {}) = 0
         /\ V # {} => AnyOf(V) \in V /\ Total(f, V) = f[AnyOf(V)] + Total(f, V \ {AnyOf(V)})
<1>1. PICK h : Sums(f, V, h)
  BY SumHas
<1>2. \A U \in SUBSET V : Total(f, U) = h[U]
  BY <1>1, TotalOf
<1>3. {} \in SUBSET V /\ V \in SUBSET V
  OBVIOUS
<1>4. h[{}] = 0
  BY <1>1, <1>3 DEF Sums, SumFrom
<1>5. ASSUME V # {}
      PROVE  AnyOf(V) \in V /\ Total(f, V) = f[AnyOf(V)] + Total(f, V \ {AnyOf(V)})
  <2>1. AnyOf(V) \in V /\ V \ {AnyOf(V)} \in SUBSET V
    BY <1>5 DEF AnyOf
  <2>2. h[V] = f[AnyOf(V)] + h[V \ {AnyOf(V)}]
    BY <1>1, <1>3, <1>5 DEF Sums, SumFrom
  <2> QED BY <1>2, <1>3, <2>1, <2>2
<1> QED BY <1>2, <1>3, <1>4, <1>5

LEMMA TotalNat ==
  ASSUME NEW f, NEW V, IsFiniteSet(V), \A x \in V : f[x] \in Nat
  PROVE  Total(f, V) \in Nat
<1> DEFINE W == {U \in SUBSET V : Total(f, U) \notin Nat}
<1>1. SUFFICES ASSUME W # {} PROVE FALSE
  BY <1>1
<1>2. PICK U \in W : IsFiniteSet(U) /\ \A x \in U : U \ {x} \notin W
  BY <1>1, SmallestOf
<1>3. CASE U = {}
  <2>1. Total(f, {}) = 0
    BY <1>2, TotalFrom
  <2> QED BY <1>2, <1>3, <2>1
<1>4. CASE U # {}
  <2>1. AnyOf(U) \in U /\ Total(f, U) = f[AnyOf(U)] + Total(f, U \ {AnyOf(U)})
    BY <1>2, <1>4, TotalFrom
  <2>2. Total(f, U \ {AnyOf(U)}) \in Nat /\ f[AnyOf(U)] \in Nat
    BY <1>2, <2>1
  <2>3. Total(f, U) \in Nat
    BY <2>1, <2>2
  <2> QED BY <1>2, <2>3
<1> QED BY <1>3, <1>4

(* It does not matter which one is taken first. *)
LEMMA TotalAny ==
  ASSUME NEW f, NEW V, IsFiniteSet(V), \A x \in V : f[x] \in Nat
  PROVE  \A x \in V : Total(f, V) = f[x] + Total(f, V \ {x})
<1> DEFINE W == {U \in SUBSET V : \E x \in U : Total(f, U) # f[x] + Total(f, U \ {x})}
<1>0. \A U \in SUBSET V : IsFiniteSet(U) /\ Total(f, U) \in Nat
  BY FS_Subset, TotalNat
<1>1. SUFFICES ASSUME W # {} PROVE FALSE
  <2>1. V \in SUBSET V /\ V \notin W
    BY <1>1
  <2> QED BY <2>1
<1>2. PICK U \in W : \A x \in U : U \ {x} \notin W
  BY <1>1, SmallestOf
<1>3. PICK x \in U : Total(f, U) # f[x] + Total(f, U \ {x})
  BY <1>2
<1> DEFINE y == AnyOf(U)
<1>4. y \in U /\ Total(f, U) = f[y] + Total(f, U \ {y})
  BY <1>0, <1>2, <1>3, TotalFrom
<1>5. x # y
  BY <1>3, <1>4
<1> HIDE DEF y
<1>6. U \ {y} \in SUBSET V /\ U \ {y} \notin W /\ x \in U \ {y}
  BY <1>2, <1>3, <1>4, <1>5
<1>7. Total(f, U \ {y}) = f[x] + Total(f, (U \ {y}) \ {x})
  BY <1>6
<1>8. U \ {x} \in SUBSET V /\ U \ {x} \notin W /\ y \in U \ {x}
  BY <1>2, <1>3, <1>4, <1>5
<1>9. Total(f, U \ {x}) = f[y] + Total(f, (U \ {x}) \ {y})
  BY <1>8
<1>10. (U \ {x}) \ {y} = (U \ {y}) \ {x} /\ (U \ {x}) \ {y} \in SUBSET V
  BY <1>2
<1>11. PICK a \in Nat, b \in Nat, c \in Nat :
         a = f[x] /\ b = f[y] /\ c = Total(f, (U \ {x}) \ {y})
  BY <1>0, <1>2, <1>3, <1>4, <1>10
<1>12. Total(f, U) = b + (a + c) /\ f[x] + Total(f, U \ {x}) = a + (b + c)
  BY <1>4, <1>7, <1>9, <1>10, <1>11
<1> QED BY <1>3, <1>11, <1>12

LEMMA TotalMore ==
  ASSUME NEW f, NEW V, IsFiniteSet(V), NEW x, x \notin V, \A y \in V \cup {x} : f[y] \in Nat
  PROVE  Total(f, V \cup {x}) = Total(f, V) + f[x] /\ IsFiniteSet(V \cup {x})
<1>1. IsFiniteSet(V \cup {x})
  BY FS_AddElement
<1>2. Total(f, V \cup {x}) = f[x] + Total(f, (V \cup {x}) \ {x})
  BY <1>1, TotalAny
<1>3. (V \cup {x}) \ {x} = V
  OBVIOUS
<1>4. PICK a \in Nat, b \in Nat : a = Total(f, V) /\ b = f[x]
  BY TotalNat
<1> QED BY <1>1, <1>2, <1>3, <1>4

LEMMA TotalUnion ==
  ASSUME NEW f, NEW V, NEW N, IsFiniteSet(V), IsFiniteSet(N), V \cap N = {},
         \A x \in V \cup N : f[x] \in Nat
  PROVE  Total(f, V \cup N) = Total(f, V) + Total(f, N)
<1> DEFINE W == {U \in SUBSET N : Total(f, V \cup U) # Total(f, V) + Total(f, U)}
<1>1. SUFFICES ASSUME W # {} PROVE FALSE
  <2>1. N \in SUBSET N /\ N \notin W
    BY <1>1
  <2> QED BY <2>1
<1>2. PICK U \in W : IsFiniteSet(U) /\ \A x \in U : U \ {x} \notin W
  BY <1>1, SmallestOf
<1>3. Total(f, V) \in Nat
  BY TotalNat
<1>4. CASE U = {}
  <2>1. V \cup U = V /\ Total(f, U) = 0
    BY <1>2, <1>4, TotalFrom
  <2> QED BY <1>2, <1>3, <2>1
<1>5. CASE U # {}
  <2>1. PICK x \in U : TRUE
    BY <1>5
  <2> DEFINE K == U \ {x}
  <2>2. /\ K \in SUBSET N /\ x \in N /\ x \notin V \cup K /\ K \cup {x} = U
        /\ (V \cup K) \cup {x} = V \cup U /\ K \notin W
    BY <1>2, <2>1
  <2>3. Total(f, V \cup K) = Total(f, V) + Total(f, K)
    BY <2>2
  <2>4. IsFiniteSet(K) /\ IsFiniteSet(V \cup K)
    BY <1>2, FS_RemoveElement, FS_Union
  <2> HIDE DEF K
  <2>5. Total(f, U) = Total(f, K) + f[x]
    BY <2>2, <2>4, TotalMore
  <2>6. Total(f, V \cup U) = Total(f, V \cup K) + f[x]
    BY <2>2, <2>4, TotalMore
  <2>7. Total(f, K) \in Nat /\ f[x] \in Nat
    BY <2>2, <2>4, TotalNat
  <2>8. Total(f, V \cup U) = Total(f, V) + Total(f, U)
    BY <1>3, <2>3, <2>5, <2>6, <2>7
  <2> QED BY <1>2, <2>8
<1> QED BY <1>4, <1>5

(* One may count by other names. *)
LEMMA TotalRenamed ==
  ASSUME NEW f, NEW V, IsFiniteSet(V), NEW g, NEW h,
         \A x \in V : f[x] \in Nat /\ f[x] = h[g[x]],
         \A x, y \in V : g[x] = g[y] => x = y,
         NEW N, \A x \in V : g[x] \in N, \A y \in N : \E x \in V : y = g[x]
  PROVE  Total(f, V) = Total(h, N)
<1> DEFINE im(U) == {g[x] : x \in U}
           W == {U \in SUBSET V : Total(f, U) # Total(h, im(U))}
<1>1. SUFFICES ASSUME W # {} PROVE FALSE
  <2>1. V \in SUBSET V /\ V \notin W
    BY <1>1
  <2>2. N = im(V)
    OBVIOUS
  <2> QED BY <2>1, <2>2
<1>2. PICK U \in W : IsFiniteSet(U) /\ \A x \in U : U \ {x} \notin W
  BY <1>1, SmallestOf
<1>3. CASE U = {}
  <2>1. im(U) = {} /\ IsFiniteSet({})
    BY <1>3, FS_EmptySet
  <2> QED BY <1>2, <1>3, <2>1, TotalFrom
<1>4. CASE U # {}
  <2>1. PICK x \in U : TRUE
    BY <1>4
  <2> DEFINE K == U \ {x}
  <2>2. K \in SUBSET V /\ x \in V /\ x \notin K /\ K \cup {x} = U /\ K \notin W
    BY <1>2, <2>1
  <2>3. Total(f, K) = Total(h, im(K))
    BY <2>2
  <2>4. IsFiniteSet(K)
    BY <1>2, FS_RemoveElement
  <2> HIDE DEF K
  <2>5. IsFiniteSet(im(K)) /\ im(U) = im(K) \cup {g[x]} /\ g[x] \notin im(K)
    <3>1. IsFiniteSet(im(K))
      BY <2>4, ImageIsFinite
    <3> QED BY <2>2, <3>1
  <2>6. Total(f, U) = Total(f, K) + f[x]
    BY <2>2, <2>4, TotalMore
  <2>7. \A y \in im(K) \cup {g[x]} : h[y] \in Nat
    BY <2>2
  <2> HIDE DEF im
  <2>8. Total(h, im(U)) = Total(h, im(K)) + h[g[x]]
    BY <2>5, <2>7, TotalMore
  <2>9. h[g[x]] = f[x]
    BY <2>2
  <2> QED BY <1>2, <2>3, <2>6, <2>8, <2>9
<1> QED BY <1>3, <1>4
-----------------------------------------------------------------------------
(* What a request holds *)

MessageRecords == [role : {"assistant", "tool"}, calls : Nat, of : Nat, size : Nat]

(* Every response is followed by the results of its calls. *)
Grouped ==
  \A p \in 1..Len(messages) :
    /\ messages[p].role = "assistant" =>
         \A j \in 1..messages[p].calls :
           p + j \in 1..Len(messages) /\ messages[p + j].role = "tool" /\ messages[p + j].of = p
    /\ messages[p].role = "tool" =>
         /\ messages[p].of \in 1..(p - 1) /\ messages[messages[p].of].role = "assistant"
         /\ p <= messages[p].of + messages[messages[p].of].calls

ContextTyped ==
  /\ budget \in Nat /\ messages \in Seq(MessageRecords) /\ earlier \in Seq(Nat)
  /\ Grouped

LEMMA MessagesAre ==
  ASSUME ContextTyped
  PROVE  /\ Len(messages) \in Nat /\ DOMAIN messages = 1..Len(messages)
         /\ \A p \in 1..Len(messages) : messages[p] \in MessageRecords
         /\ Len(earlier) \in Nat /\ DOMAIN earlier = 1..Len(earlier)
         /\ \A t \in 1..Len(earlier) : earlier[t] \in Nat
         /\ X!Starts \in SUBSET (1..Len(messages))
         /\ \A p \in X!Starts : messages[p].role = "assistant" /\ messages[p].calls \in Nat
<1>1. /\ Len(messages) \in Nat /\ DOMAIN messages = 1..Len(messages)
      /\ \A p \in 1..Len(messages) : messages[p] \in MessageRecords
  BY ElementOfSeq, LenProperties DEF ContextTyped
<1>2. /\ Len(earlier) \in Nat /\ DOMAIN earlier = 1..Len(earlier)
      /\ \A t \in 1..Len(earlier) : earlier[t] \in Nat
  BY ElementOfSeq, LenProperties DEF ContextTyped
<1> QED BY <1>1, <1>2 DEF X!Starts, MessageRecords

LEMMA GroupIs ==
  ASSUME ContextTyped, NEW p \in X!Starts
  PROVE  X!GroupAt(p) = p..(p + messages[p].calls)
<1> DEFINE N == Len(messages)
           n == messages[p].calls
<1>1. /\ N \in Nat /\ p \in 1..N /\ n \in Nat /\ DOMAIN messages = 1..N
      /\ messages[p].role = "assistant"
      /\ \A j \in 1..n : p + j \in 1..N /\ messages[p + j].role = "tool" /\ messages[p + j].of = p
      /\ \A q \in 1..N : /\ messages[q] \in MessageRecords
                         /\ q \in X!Starts <=> messages[q].role = "assistant"
      /\ \A q \in 1..N : messages[q].role = "tool" =>
           /\ messages[q].of \in 1..(q - 1) /\ messages[messages[q].of].role = "assistant"
           /\ q <= messages[q].of + messages[messages[q].of].calls
  BY MessagesAre DEF ContextTyped, Grouped, X!Starts
<1> HIDE DEF N, n
<1>2. ASSUME NEW q \in p..(p + n) PROVE q \in X!GroupAt(p)
  <2>1. q \in 1..N
    <3>1. CASE q = p
      BY <1>1, <3>1
    <3>2. CASE q # p
      <4>1. PICK j \in 1..n : q = p + j
        <5>1. q - p \in 1..n /\ q = p + (q - p)
          BY <1>1, <3>2
        <5> QED BY <5>1
      <4> QED BY <1>1, <4>1
    <3> QED BY <3>1, <3>2
  <2>2. ASSUME NEW s \in X!Starts, s > p, ~(q < s) PROVE FALSE
    <3>1. s \in 1..N /\ messages[s].role = "assistant"
      BY <1>1, <2>2, MessagesAre DEF N
    <3>2. s - p \in 1..n /\ s = p + (s - p)
      BY <1>1, <2>2, <3>1
    <3>3. messages[s].role = "tool"
      BY <1>1, <3>2
    <3> QED BY <3>1, <3>3
  <2>3. \A s \in X!Starts : s > p => q < s
    BY <2>2
  <2>4. q \in DOMAIN messages /\ q >= p
    BY <1>1, <2>1
  <2> QED BY <2>3, <2>4 DEF X!GroupAt
<1>3. ASSUME NEW q \in X!GroupAt(p) PROVE q \in p..(p + n)
  <2>1. q \in 1..N /\ q >= p /\ \A s \in X!Starts : s > p => q < s
    BY <1>1 DEF X!GroupAt
  <2>2. SUFFICES ASSUME q > p + n PROVE FALSE
    BY <1>1, <2>1
  <2> DEFINE k == p + n + 1
  <2>3. k \in 1..N /\ k > p /\ k <= q
    BY <1>1, <2>1, <2>2
  <2>4. messages[k].role = "tool"
    <3>1. k \notin X!Starts
      BY <1>1, <2>1, <2>3
    <3>2. messages[k] \in MessageRecords /\ messages[k].role # "assistant"
      BY <1>1, <2>3, <3>1
    <3> QED BY <3>2 DEF MessageRecords
  <2>5. PICK o \in 1..N : o = messages[k].of
    BY <1>1, <2>3, <2>4
  <2>6. /\ o \in 1..(k - 1) /\ messages[o].role = "assistant" /\ k <= o + messages[o].calls
        /\ messages[o].calls \in Nat /\ o \in X!Starts
    BY <1>1, <2>3, <2>4, <2>5, MessagesAre
  <2>7. CASE o = p
    BY <1>1, <2>6, <2>7 DEF n
  <2>8. CASE o > p
    <3>1. q < o
      BY <2>1, <2>6, <2>8
    <3> QED BY <1>1, <2>1, <2>3, <2>6, <3>1
  <2>9. CASE o < p
    <3>0. PICK m \in Nat : m = messages[o].calls /\ k <= o + m
      BY <2>6
    <3>1. p - o \in 1..messages[o].calls /\ p = o + (p - o)
      <4>1. o \in Nat /\ p \in Nat /\ n \in Nat /\ k = p + n + 1
        BY <1>1, <2>6
      <4> HIDE DEF k, n
      <4>2. p - o \in 1..m /\ p = o + (p - o)
        BY <2>9, <3>0, <4>1
      <4> QED BY <3>0, <4>2
    <3>2. PICK j \in 1..messages[o].calls : p = o + j
      BY <3>1
    <3>3. o \in 1..Len(messages)
      BY <2>5 DEF N
    <3>4. messages[o + j].role = "tool"
      BY <2>6, <3>3 DEF ContextTyped, Grouped
    <3> QED BY <1>1, <3>2, <3>4
  <2> QED BY <1>1, <2>6, <2>7, <2>8, <2>9
<1> QED BY <1>2, <1>3 DEF n

(* A message is in one group. *)
LEMMA GroupsApart ==
  ASSUME ContextTyped, NEW p \in X!Starts, NEW s \in X!Starts, p # s
  PROVE  X!GroupAt(p) \cap X!GroupAt(s) = {}
<1>1. p \in Nat /\ s \in Nat /\ DOMAIN messages \subseteq Nat
  BY MessagesAre
<1> QED BY <1>1 DEF X!GroupAt

LEMMA EverythingIs ==
  ASSUME ContextTyped
  PROVE  /\ IsFiniteSet(X!Everything)
         /\ \A x \in X!Everything : X!Size[x] \in Nat
         /\ \A x \in X!Everything :
              \/ x.kind \in {"system", "question", "data", "catalogs"} /\ x = X!Part(x.kind, 0)
              \/ x.kind = "turn" /\ x = X!Part("turn", x.index) /\ x.index \in 1..Len(earlier)
              \/ x.kind = "run" /\ x = X!Part("run", x.index) /\ x.index \in 1..Len(messages)
<1> DEFINE N == Len(messages)
           K == Len(earlier)
           Fixed == {"system", "question", "data", "catalogs"}
           f == [kind \in Fixed |-> X!Part(kind, 0)]
           g == [t \in 1..K |-> X!Part("turn", t)]
           h == [q \in 1..N |-> X!Part("run", q)]
           F == {f[kind] : kind \in Fixed}
           G == {g[t] : t \in 1..K}
           H == {h[q] : q \in 1..N}
<1>1. /\ N \in Nat /\ K \in Nat /\ DOMAIN messages = 1..N /\ DOMAIN earlier = 1..K
      /\ \A p \in 1..N : messages[p] \in MessageRecords
      /\ \A t \in 1..K : earlier[t] \in Nat
  BY MessagesAre
<1>2. X!Everything = F \cup G \cup H
  BY <1>1 DEF X!Everything
<1>3. IsFiniteSet(Fixed) /\ IsFiniteSet(1..K) /\ IsFiniteSet(1..N)
  <2>1. IsFiniteSet({"system"})
    BY FS_Singleton
  <2>2. IsFiniteSet(Fixed)
    <3>1. IsFiniteSet({"system"} \cup {"question"})
      BY <2>1, FS_AddElement
    <3>2. IsFiniteSet({"system"} \cup {"question"} \cup {"data"})
      BY <3>1, FS_AddElement
    <3>3. IsFiniteSet({"system"} \cup {"question"} \cup {"data"} \cup {"catalogs"})
      BY <3>2, FS_AddElement
    <3>4. Fixed = {"system"} \cup {"question"} \cup {"data"} \cup {"catalogs"}
      OBVIOUS
    <3> QED BY <3>3, <3>4
  <2> QED BY <1>1, <2>2, FS_Interval
<1>4. IsFiniteSet(X!Everything)
  <2> HIDE DEF f, g, h, Fixed
  <2>1. IsFiniteSet(F) /\ IsFiniteSet(G) /\ IsFiniteSet(H)
    BY <1>3, ImageIsFinite
  <2> QED BY <1>2, <2>1, FS_Union
<1>5. ASSUME NEW x \in X!Everything
      PROVE  \/ x.kind \in Fixed /\ x = X!Part(x.kind, 0)
             \/ x.kind = "turn" /\ x = X!Part("turn", x.index) /\ x.index \in 1..K
             \/ x.kind = "run" /\ x = X!Part("run", x.index) /\ x.index \in 1..N
  BY <1>2 DEF X!Part
<1>6. ASSUME NEW x \in X!Everything PROVE X!Size[x] \in Nat
  <2>1. X!Size[x] = CASE x.kind = "run" -> messages[x.index].size
                      [] x.kind = "turn" -> earlier[x.index]
                      [] x.kind = "catalogs" -> 2
                      [] OTHER -> 1
    BY DEF X!Size
  <2>2. x.kind = "run" => messages[x.index].size \in Nat
    BY <1>1, <1>5 DEF MessageRecords
  <2>3. x.kind = "turn" => earlier[x.index] \in Nat
    BY <1>1, <1>5
  <2> HIDE DEF N, K
  <2> QED BY <2>1, <2>2, <2>3
<1> QED BY <1>4, <1>5, <1>6

(* The candidates *)
TaskParts == {X!Part("system", 0), X!Part("question", 0)}
TaskCandidate == X!Candidate(TaskParts, 1, 0, TRUE)
DataCandidate == X!Candidate({X!Part("data", 0)}, 1, 1, TRUE)
CatalogsCandidate == X!Candidate({X!Part("catalogs", 0)}, 5, 0, FALSE)
GroupRequired(p) == p \in X!LatestGroup \cup X!LatestToolGroup
GroupCandidate(p) == X!Candidate(X!GroupParts(p), 3, Len(messages) - p, GroupRequired(p))
TurnCandidate(t) == X!Candidate({X!Part("turn", t)}, 4, t, FALSE)

CandidateHas(c, parts) ==
  /\ c.parts = parts /\ c.size = Total(X!Size, parts)
  /\ c.rank \in Nat /\ c.place \in Nat

LEMMA CandidateIs ==
  ASSUME NEW parts, NEW priority \in Nat, NEW nth \in Nat, NEW required
  PROVE  /\ CandidateHas(X!Candidate(parts, priority, nth, required), parts)
         /\ X!Candidate(parts, priority, nth, required).required = required
BY DEF X!Candidate, Total, CandidateHas

LEMMA CandidatesHave ==
  ASSUME ContextTyped
  PROVE  /\ CandidateHas(TaskCandidate, TaskParts) /\ CandidateHas(DataCandidate, {X!Part("data", 0)})
         /\ CandidateHas(CatalogsCandidate, {X!Part("catalogs", 0)})
         /\ \A p \in X!Starts : CandidateHas(GroupCandidate(p), X!GroupParts(p))
         /\ \A t \in 1..Len(earlier) : CandidateHas(TurnCandidate(t), {X!Part("turn", t)})
<1>1. ASSUME NEW p \in X!Starts PROVE CandidateHas(GroupCandidate(p), X!GroupParts(p))
  <2>1. Len(messages) - p \in Nat
    BY MessagesAre
  <2> QED BY <2>1, CandidateIs DEF GroupCandidate
<1>2. ASSUME NEW t \in 1..Len(earlier) PROVE CandidateHas(TurnCandidate(t), {X!Part("turn", t)})
  <2>1. t \in Nat
    BY MessagesAre
  <2> QED BY <2>1, CandidateIs DEF TurnCandidate
<1> QED BY <1>1, <1>2, CandidateIs DEF TaskCandidate, DataCandidate, CatalogsCandidate

LEMMA CandidatesFrom ==
  ASSUME ContextTyped, NEW c \in X!AllCandidates
  PROVE  \/ c = TaskCandidate \/ c = DataCandidate \/ c = CatalogsCandidate
         \/ \E p \in X!Starts : c = GroupCandidate(p)
         \/ \E t \in 1..Len(earlier) : c = TurnCandidate(t)
BY MessagesAre DEF X!AllCandidates, TaskCandidate, TaskParts, DataCandidate, CatalogsCandidate, GroupCandidate,
   GroupRequired, TurnCandidate

LEMMA CandidatesInto ==
  ASSUME ContextTyped
  PROVE  /\ TaskCandidate \in X!AllCandidates /\ DataCandidate \in X!AllCandidates
         /\ \A p \in X!Starts : GroupCandidate(p) \in X!AllCandidates
         /\ \A t \in 1..Len(earlier) : TurnCandidate(t) \in X!AllCandidates
BY MessagesAre DEF X!AllCandidates, TaskCandidate, TaskParts, DataCandidate, GroupCandidate,
   GroupRequired, TurnCandidate

LEMMA GroupPartsIn ==
  ASSUME ContextTyped, NEW p \in X!Starts
  PROVE  X!GroupParts(p) \subseteq X!Everything
BY DEF X!GroupParts, X!GroupAt, X!Everything

LEMMA CandidatesAre ==
  ASSUME ContextTyped, NEW c \in X!AllCandidates
  PROVE  /\ c.parts \subseteq X!Everything /\ IsFiniteSet(c.parts)
         /\ c.size = Total(X!Size, c.parts) /\ c.size \in Nat
         /\ c.rank \in Nat /\ c.place \in Nat
<1>1. \E parts \in SUBSET X!Everything : CandidateHas(c, parts)
  <2>0. /\ TaskParts \subseteq X!Everything /\ {X!Part("data", 0)} \subseteq X!Everything
        /\ {X!Part("catalogs", 0)} \subseteq X!Everything
        /\ \A p \in X!Starts : X!GroupParts(p) \subseteq X!Everything
        /\ \A t \in 1..Len(earlier) : {X!Part("turn", t)} \subseteq X!Everything
    BY GroupPartsIn, MessagesAre DEF TaskParts, X!Everything
  <2> QED BY <2>0, CandidatesFrom, CandidatesHave
<1>2. PICK parts \in SUBSET X!Everything : CandidateHas(c, parts)
  BY <1>1
<1>4. IsFiniteSet(parts)
  BY EverythingIs, FS_Subset
<1>5. Total(X!Size, parts) \in Nat
  BY <1>4, EverythingIs, TotalNat
<1> QED BY <1>2, <1>4, <1>5 DEF CandidateHas

(* No part is in two of them. *)
LEMMA CandidatesApart ==
  ASSUME ContextTyped, NEW c \in X!AllCandidates, NEW d \in X!AllCandidates, NEW x \in c.parts, x \in d.parts
  PROVE  c = d
<1> DEFINE Is(e) ==
      \/ x.kind \in {"system", "question"} /\ e = TaskCandidate
      \/ x.kind = "data" /\ e = DataCandidate
      \/ x.kind = "catalogs" /\ e = CatalogsCandidate
      \/ x.kind = "run" /\ \E p \in X!Starts : x.index \in X!GroupAt(p) /\ e = GroupCandidate(p)
      \/ x.kind = "turn" /\ e = TurnCandidate(x.index)
<1>1. ASSUME NEW e \in X!AllCandidates, x \in e.parts PROVE Is(e)
  <2>1. CASE e = TaskCandidate
    <3>1. e.parts = TaskParts
      BY <2>1, CandidatesHave DEF CandidateHas
    <3> QED BY <1>1, <2>1, <3>1 DEF TaskParts, X!Part
  <2>2. CASE e = DataCandidate
    <3>1. e.parts = {X!Part("data", 0)}
      BY <2>2, CandidatesHave DEF CandidateHas
    <3> QED BY <1>1, <2>2, <3>1 DEF X!Part
  <2>3. CASE e = CatalogsCandidate
    <3>1. e.parts = {X!Part("catalogs", 0)}
      BY <2>3, CandidatesHave DEF CandidateHas
    <3> QED BY <1>1, <2>3, <3>1 DEF X!Part
  <2>4. ASSUME NEW p \in X!Starts, e = GroupCandidate(p) PROVE Is(e)
    <3>2. e.parts = X!GroupParts(p)
      BY <2>4, CandidatesHave DEF CandidateHas
    <3>3. PICK q \in X!GroupAt(p) : x = X!Part("run", q)
      BY <1>1, <3>2 DEF X!GroupParts
    <3>4. x.kind = "run" /\ x.index = q
      BY <3>3 DEF X!Part
    <3> QED BY <2>4, <3>3, <3>4
  <2>5. ASSUME NEW t \in 1..Len(earlier), e = TurnCandidate(t) PROVE Is(e)
    <3>1. t \in Nat
      BY MessagesAre
    <3>2. e.parts = {X!Part("turn", t)}
      BY <2>5, <3>1, CandidatesHave DEF CandidateHas
    <3>3. x.kind = "turn" /\ x.index = t
      BY <1>1, <3>2 DEF X!Part
    <3> QED BY <2>5, <3>3
  <2> HIDE DEF Is
  <2> QED BY <1>1, <2>1, <2>2, <2>3, <2>4, <2>5, CandidatesFrom
<1>2. Is(c) /\ Is(d)
  BY <1>1
<1>3. CASE x.kind = "run"
  <2>1. PICK p \in X!Starts : x.index \in X!GroupAt(p) /\ c = GroupCandidate(p)
    BY <1>2, <1>3
  <2>2. PICK s \in X!Starts : x.index \in X!GroupAt(s) /\ d = GroupCandidate(s)
    BY <1>2, <1>3
  <2>3. p = s
    BY <2>1, <2>2, GroupsApart
  <2> QED BY <2>1, <2>2, <2>3
<1> QED BY <1>2, <1>3

LEMMA CandidatesFinite ==
  ASSUME ContextTyped
  PROVE  IsFiniteSet(X!AllCandidates)
<1> DEFINE f == [p \in X!Starts |-> GroupCandidate(p)]
           g == [t \in 1..Len(earlier) |-> TurnCandidate(t)]
           F == {f[p] : p \in X!Starts}
           G == {g[t] : t \in 1..Len(earlier)}
           H == {TaskCandidate} \cup {DataCandidate} \cup {CatalogsCandidate}
<1>1. IsFiniteSet(X!Starts) /\ IsFiniteSet(1..Len(earlier))
  <2>1. PICK m \in Nat, k \in Nat : m = Len(messages) /\ k = Len(earlier) /\ X!Starts \in SUBSET (1..m)
    BY MessagesAre
  <2>2. IsFiniteSet(1..m) /\ IsFiniteSet(1..k)
    BY FS_Interval
  <2> QED BY <2>1, <2>2, FS_Subset
<1>2. IsFiniteSet(H)
  <2>1. IsFiniteSet({TaskCandidate})
    BY FS_Singleton
  <2>2. IsFiniteSet({TaskCandidate} \cup {DataCandidate})
    BY <2>1, FS_AddElement
  <2> QED BY <2>2, FS_AddElement
<1>3. \A c \in X!AllCandidates : c \in F \cup G \cup H
  BY CandidatesFrom
<1> HIDE DEF f, g, H
<1>4. IsFiniteSet(F) /\ IsFiniteSet(G)
  BY <1>1, ImageIsFinite
<1>5. IsFiniteSet(F \cup G \cup H)
  BY <1>2, <1>4, FS_Union
<1>6. X!AllCandidates \in SUBSET (F \cup G \cup H)
  BY <1>3
<1> HIDE DEF F, G
<1> QED BY <1>5, <1>6, FS_Subset

(* There is a last one. *)
LEMMA LastIs ==
  ASSUME ContextTyped, NEW V \in SUBSET X!AllCandidates, V # {}
  PROVE  X!LastOf(V) \in V
<1> DEFINE Last(U) == \E c \in U : \A d \in U : ~X!Before(c, d)
           W == {U \in SUBSET X!AllCandidates : U # {} /\ ~Last(U)}
<1>1. \A c \in X!AllCandidates : c.rank \in Nat /\ c.place \in Nat
  BY CandidatesAre
<1>2. \A c, d, e \in X!AllCandidates :
        ~X!Before(c, c) /\ (X!Before(c, d) /\ X!Before(d, e) => X!Before(c, e))
  BY <1>1 DEF X!Before
<1>3. ASSUME W # {} PROVE FALSE
  <2>1. W \in SUBSET (SUBSET X!AllCandidates)
    OBVIOUS
  <2>2. PICK U \in W : \A x \in U : U \ {x} \notin W
    BY <1>3, <2>1, CandidatesFinite, SmallestOf
  <2>3. PICK x \in U : TRUE
    BY <2>2
  <2>4. CASE U \ {x} = {}
    <3>1. U = {x} /\ x \in X!AllCandidates
      BY <2>2, <2>3, <2>4
    <3>2. Last(U)
      BY <1>2, <3>1
    <3> QED BY <2>2, <3>2
  <2>5. CASE U \ {x} # {}
    <3>1. Last(U \ {x})
      BY <2>2, <2>3, <2>5
    <3>2. PICK y \in U \ {x} : \A d \in U \ {x} : ~X!Before(y, d)
      BY <3>1
    <3>3. U \in SUBSET X!AllCandidates /\ x \in X!AllCandidates /\ y \in X!AllCandidates
      BY <2>2, <2>3, <3>2
    <3>4. CASE ~X!Before(y, x)
      BY <2>2, <3>2, <3>4
    <3>5. CASE X!Before(y, x)
      <4>1. \A d \in U : ~X!Before(x, d)
        BY <1>2, <3>2, <3>3, <3>5
      <4> QED BY <2>2, <2>3, <4>1
    <3> QED BY <3>4, <3>5
  <2> QED BY <2>4, <2>5
<1>4. Last(V)
  BY <1>3
<1> QED BY <1>4 DEF X!LastOf

-----------------------------------------------------------------------------
(* The selection *)

Start == [left |-> budget - X!ToolsSize, chosen |-> {}, exceeded |-> FALSE]

SelectFrom(U, h) == IF U = {} THEN Start ELSE X!Take(X!LastOf(U), h[U \ {X!LastOf(U)}])

LEMMA SelectExists ==
  ASSUME ContextTyped, NEW V, V = X!AllCandidates
  PROVE  \E h : h = [U \in SUBSET V |-> SelectFrom(U, h)]
<1> DEFINE Sets(k) == {U \in SUBSET V : Cardinality(U) <= k}
           Has(k) == \E h : h = [U \in Sets(k) |-> SelectFrom(U, h)]
           W == {k \in Nat : ~Has(k)}
<1>f. IsFiniteSet(V)
  BY CandidatesFinite
<1>0. /\ \A U \in SUBSET V : IsFiniteSet(U) /\ Cardinality(U) \in Nat
      /\ \A U \in SUBSET V : Cardinality(U) <= Cardinality(V)
  BY <1>f, FS_Subset, FS_CardinalityType
<1>1. \A U \in SUBSET V : U # {} =>
        /\ X!LastOf(U) \in U /\ U \ {X!LastOf(U)} \in SUBSET V
        /\ Cardinality(U \ {X!LastOf(U)}) = Cardinality(U) - 1
  BY <1>0, FS_RemoveElement, LastIs
<1>2. ASSUME W # {} PROVE FALSE
  <2>1. W \in SUBSET Nat
    OBVIOUS
  <2>2. PICK k \in W : \A j \in W : k <= j
    BY <1>2, <2>1, LeastOf
  <2>3. CASE k = 0
    <3> DEFINE h == [U \in Sets(0) |-> Start]
    <3>1. \A U \in Sets(0) : U = {}
      BY <1>0, FS_EmptySet
    <3>2. h = [U \in Sets(0) |-> SelectFrom(U, h)]
      BY <3>1 DEF SelectFrom
    <3>3. Has(0)
      BY <3>2
    <3> QED BY <2>2, <2>3, <3>3
  <2>4. CASE k # 0
    <3>1. k - 1 \in Nat /\ ~(k <= k - 1)
      BY <2>2, <2>4
    <3>2. Has(k - 1)
      BY <2>2, <3>1
    <3>3. PICK g : g = [U \in Sets(k - 1) |-> SelectFrom(U, g)]
      BY <3>2
    <3> DEFINE h == [U \in Sets(k) |-> SelectFrom(U, g)]
    <3>4. \A U \in Sets(k) : U \in SUBSET V /\ (U # {} => U \ {X!LastOf(U)} \in Sets(k - 1))
      BY <1>0, <1>1, <2>2
    <3>5. \A U \in Sets(k - 1) : U \in Sets(k) /\ g[U] = SelectFrom(U, g) /\ h[U] = SelectFrom(U, g)
      BY <1>0, <2>2, <3>3
    <3> HIDE DEF Sets
    <3>6. \A U \in Sets(k) : SelectFrom(U, g) = SelectFrom(U, h)
      BY <3>4, <3>5 DEF SelectFrom
    <3>7. h = [U \in Sets(k) |-> SelectFrom(U, h)]
      BY <3>6
    <3>8. Has(k)
      BY <3>7
    <3> QED BY <2>2, <3>8
  <2> QED BY <2>3, <2>4
<1>3. Has(Cardinality(V))
  BY <1>0, <1>2
<1>4. Sets(Cardinality(V)) = SUBSET V
  BY <1>0
<1> HIDE DEF Sets
<1> QED BY <1>3, <1>4

LEMMA SelectHas ==
  ASSUME ContextTyped
  PROVE  \E h : /\ \A U \in SUBSET X!AllCandidates : h[U] = SelectFrom(U, h)
               /\ X!Selection = h[X!AllCandidates]
<1> DEFINE Is(h) == h = [U \in SUBSET X!AllCandidates |-> SelectFrom(U, h)]
           h == CHOOSE h : Is(h)
<1>1. Is(h)
  BY SelectExists
<1>2. X!Selection = h[X!AllCandidates]
  BY DEF X!Selection, X!MapThenFoldSet, SelectFrom, Start
<1> HIDE DEF h
<1> QED BY <1>1, <1>2

(* The parts of what is chosen *)
Contents(Z) == UNION {c.parts : c \in Z}

(* After the candidates in V, the last of which may be anything *)
Selects(V, s) ==
  /\ s = [left |-> s.left, chosen |-> s.chosen, exceeded |-> s.exceeded]
  /\ s.left \in Int /\ s.chosen \subseteq V
  /\ s.left + Total(X!Size, Contents(s.chosen)) = budget - 1
  /\ s.chosen # {} => s.left >= 0
  /\ \A c \in V \ s.chosen : c.size > s.left
  /\ ~s.exceeded => \A c \in V : c.required => c \in s.chosen

LEMMA ContentsAre ==
  ASSUME ContextTyped, NEW Z \in SUBSET X!AllCandidates
  PROVE  /\ Contents(Z) \subseteq X!Everything /\ IsFiniteSet(Contents(Z))
         /\ Total(X!Size, Contents(Z)) \in Nat
<1>1. Contents(Z) \subseteq X!Everything
  BY CandidatesAre DEF Contents
<1>2. IsFiniteSet(Contents(Z))
  BY <1>1, EverythingIs, FS_Subset
<1>3. \A x \in Contents(Z) : X!Size[x] \in Nat
  BY <1>1, EverythingIs
<1> QED BY <1>1, <1>2, <1>3, TotalNat

LEMMA TakeKeeps ==
  ASSUME ContextTyped, NEW V \in SUBSET X!AllCandidates, NEW c \in V, NEW s, Selects(V \ {c}, s)
  PROVE  Selects(V, X!Take(c, s))
<1> DEFINE Z == s.chosen
           w == Total(X!Size, Contents(Z))
<1>1. /\ s = [left |-> s.left, chosen |-> Z, exceeded |-> s.exceeded] /\ s.chosen = Z
      /\ s.left \in Int /\ Z \subseteq V \ {c} /\ s.left + w = budget - 1
      /\ Z # {} => s.left >= 0
      /\ \A d \in (V \ {c}) \ Z : d.size > s.left
      /\ ~s.exceeded => \A d \in V \ {c} : d.required => d \in Z
  BY DEF Selects
<1>2. c \in X!AllCandidates /\ Z \in SUBSET X!AllCandidates /\ budget \in Nat
  BY <1>1 DEF ContextTyped
<1>3. /\ c.parts \subseteq X!Everything /\ IsFiniteSet(c.parts)
      /\ c.size = Total(X!Size, c.parts) /\ c.size \in Nat
  BY <1>2, CandidatesAre
<1>4. /\ Contents(Z) \subseteq X!Everything /\ IsFiniteSet(Contents(Z)) /\ w \in Nat
  BY <1>2, ContentsAre
<1> HIDE DEF Z, w
<1>5. CASE c.size <= s.left
  <2> DEFINE t == X!Take(c, s)
  <2>1. t = [left |-> s.left - c.size, chosen |-> Z \cup {c}, exceeded |-> s.exceeded]
    BY <1>1, <1>5 DEF X!Take
  <2>2. Contents(Z \cup {c}) = Contents(Z) \cup c.parts
    BY DEF Contents
  <2>3. Contents(Z) \cap c.parts = {}
    BY <1>1, <1>2, CandidatesApart DEF Contents
  <2>4. \A x \in Contents(Z) \cup c.parts : X!Size[x] \in Nat
    BY <1>3, <1>4, EverythingIs
  <2>5. Total(X!Size, Contents(Z \cup {c})) = w + c.size
    <3>1. Total(X!Size, Contents(Z) \cup c.parts) = Total(X!Size, Contents(Z)) + Total(X!Size, c.parts)
      BY <1>3, <1>4, <2>3, <2>4, TotalUnion
    <3> QED BY <1>3, <2>2, <3>1 DEF w
  <2> HIDE DEF t
  <2>6. t.left = s.left - c.size /\ t.chosen = Z \cup {c} /\ t.exceeded = s.exceeded
    BY <2>1
  <2>7. t.left \in Int /\ t.left >= 0 /\ t.left <= s.left
    BY <1>1, <1>3, <1>5, <2>6
  <2>8. t.left + Total(X!Size, Contents(t.chosen)) = budget - 1
    BY <1>1, <1>2, <1>3, <1>4, <2>5, <2>6
  <2>9. \A d \in V \ t.chosen : d.size > t.left
    <3>1. TAKE d \in V \ t.chosen
    <3>2. d \in (V \ {c}) \ Z /\ d.size \in Nat
      BY <2>6, CandidatesAre
    <3> QED BY <1>1, <2>7, <3>2
  <2>10. ~t.exceeded => \A d \in V : d.required => d \in t.chosen
    BY <1>1, <2>6
  <2> QED BY <1>1, <2>1, <2>6, <2>7, <2>8, <2>9, <2>10 DEF Selects, t
<1>6. CASE ~(c.size <= s.left)
  <2> DEFINE t == X!Take(c, s)
  <2>1. t = [left |-> s.left, chosen |-> Z, exceeded |-> s.exceeded \/ c.required]
    BY <1>1, <1>6 DEF X!Take
  <2> HIDE DEF t
  <2>2. t.left = s.left /\ t.chosen = Z /\ t.exceeded = (s.exceeded \/ c.required)
    BY <2>1
  <2>3. \A d \in V \ t.chosen : d.size > t.left
    BY <1>1, <1>3, <1>6, <2>2
  <2>4. ~t.exceeded => \A d \in V : d.required => d \in t.chosen
    BY <1>1, <2>2
  <2> QED BY <1>1, <2>1, <2>2, <2>3, <2>4 DEF Selects, t, w
<1> QED BY <1>5, <1>6

LEMMA SelectionIs ==
  ASSUME ContextTyped
  PROVE  Selects(X!AllCandidates, X!Selection)
<1>1. PICK h : /\ \A U \in SUBSET X!AllCandidates : h[U] = SelectFrom(U, h)
               /\ X!Selection = h[X!AllCandidates]
  BY SelectHas
<1> DEFINE W == {U \in SUBSET X!AllCandidates : ~Selects(U, h[U])}
<1>2. ASSUME W # {} PROVE FALSE
  <2>0. IsFiniteSet(X!AllCandidates) /\ W \in SUBSET (SUBSET X!AllCandidates)
    BY CandidatesFinite
  <2>1. PICK U \in W : \A x \in U : U \ {x} \notin W
    BY <1>2, <2>0, SmallestOf
  <2>2. U \in SUBSET X!AllCandidates /\ h[U] = SelectFrom(U, h)
    BY <1>1, <2>1
  <2>3. CASE U = {}
    <3>1. h[U] = Start
      BY <2>2, <2>3 DEF SelectFrom
    <3>2. Contents({}) = {} /\ IsFiniteSet({})
      BY FS_EmptySet DEF Contents
    <3>3. Total(X!Size, Contents({})) = 0
      BY <3>2, TotalFrom
    <3>4. budget \in Nat
      BY DEF ContextTyped
    <3>5. Selects({}, Start)
      BY <3>3, <3>4 DEF Selects, Start, X!ToolsSize
    <3> QED BY <2>1, <2>3, <3>1, <3>5
  <2>4. CASE U # {}
    <3> DEFINE c == X!LastOf(U)
    <3>1. c \in U
      BY <2>2, <2>4, LastIs
    <3>2. h[U] = X!Take(c, h[U \ {c}])
      BY <2>2, <2>4 DEF SelectFrom
    <3> HIDE DEF c
    <3>3. Selects(U \ {c}, h[U \ {c}])
      BY <2>1, <2>2, <3>1
    <3>4. Selects(U, h[U])
      BY <2>2, <3>1, <3>2, <3>3, TakeKeeps
    <3> QED BY <2>1, <3>4
  <2> QED BY <2>3, <2>4
<1>3. Selects(X!AllCandidates, h[X!AllCandidates])
  BY <1>2
<1> QED BY <1>1, <1>3
-----------------------------------------------------------------------------
(* The arrangement *)

LastPosition == 3 + Len(earlier) + Len(messages)

LEMMA PositionIs ==
  ASSUME ContextTyped
  PROVE  /\ LastPosition \in Nat
         /\ \A x \in X!Everything : X!Position(x) \in 0..LastPosition
         /\ \A x, y \in X!Everything : X!Position(x) = X!Position(y) => x = y
<1> DEFINE K == Len(earlier)
           N == Len(messages)
<1>1. K \in Nat /\ N \in Nat
  BY MessagesAre
<1>2. ASSUME NEW x \in X!Everything
      PROVE  /\ X!Position(x) \in 0..(3 + K + N)
             /\ \/ x = X!Part("system", 0) /\ X!Position(x) = 0
                \/ x = X!Part("data", 0) /\ X!Position(x) = 1 + K
                \/ x = X!Part("catalogs", 0) /\ X!Position(x) = 2 + K
                \/ x = X!Part("question", 0) /\ X!Position(x) = 3 + K
                \/ x = X!Part("turn", x.index) /\ x.index \in 1..K /\ X!Position(x) = 1 + K - x.index
                \/ x = X!Part("run", x.index) /\ x.index \in 1..N /\ X!Position(x) = 3 + K + x.index
  <2>1. \/ x.kind \in {"system", "question", "data", "catalogs"} /\ x = X!Part(x.kind, 0)
        \/ x.kind = "turn" /\ x = X!Part("turn", x.index) /\ x.index \in 1..K
        \/ x.kind = "run" /\ x = X!Part("run", x.index) /\ x.index \in 1..N
    BY EverythingIs
  <2>2. X!Position(x) =
          CASE x.kind = "system" -> 0
            [] x.kind = "turn" -> 1 + K - x.index
            [] x.kind = "data" -> 1 + K
            [] x.kind = "catalogs" -> 2 + K
            [] x.kind = "question" -> 3 + K
            [] x.kind = "run" -> 3 + K + x.index
    BY DEF X!Position
  <2> HIDE DEF K, N
  <2> QED BY <1>1, <2>1, <2>2
<1> HIDE DEF K, N
<1> DEFINE Occupies(x, n) ==
      \/ x = X!Part("system", 0) /\ n = 0
      \/ x = X!Part("data", 0) /\ n = 1 + K
      \/ x = X!Part("catalogs", 0) /\ n = 2 + K
      \/ x = X!Part("question", 0) /\ n = 3 + K
      \/ \E k \in 1..K : x = X!Part("turn", k) /\ n = 1 + K - k
      \/ \E k \in 1..N : x = X!Part("run", k) /\ n = 3 + K + k
<1>3. \A x, y \in X!Everything : X!Position(x) = X!Position(y) => x = y
  <2>1. TAKE x, y \in X!Everything
  <2>2. HAVE X!Position(x) = X!Position(y)
  <2>3. Occupies(x, X!Position(x)) /\ Occupies(y, X!Position(y))
    BY <1>2
  <2>4. PICK n \in Int : n = X!Position(x)
    BY <1>1, <1>2
  <2>5. Occupies(x, n) /\ Occupies(y, n)
    BY <2>2, <2>3, <2>4
  <2>6. CASE n > 3 + K
    <3>1. \E k \in 1..N : x = X!Part("run", k) /\ n = 3 + K + k
      BY <1>1, <2>5, <2>6
    <3>2. \E k \in 1..N : y = X!Part("run", k) /\ n = 3 + K + k
      BY <1>1, <2>5, <2>6
    <3> QED BY <1>1, <3>1, <3>2
  <2>7. CASE n \in 1..K
    <3>1. \E k \in 1..K : x = X!Part("turn", k) /\ n = 1 + K - k
      BY <1>1, <2>5, <2>7
    <3>2. \E k \in 1..K : y = X!Part("turn", k) /\ n = 1 + K - k
      BY <1>1, <2>5, <2>7
    <3> QED BY <1>1, <3>1, <3>2
  <2> QED BY <1>1, <2>5, <2>6, <2>7
<1> QED BY <1>1, <1>2, <1>3 DEF LastPosition, K, N

Here(V, n) == {x \in V : X!Position(x) = n}

PutFrom(V, n, f) ==
  LET before == IF n = 0 THEN <<>> ELSE f[n - 1]
  IN  IF Here(V, n) = {} THEN before ELSE Append(before, CHOOSE x \in Here(V, n) : TRUE)

LEMMA RequestExists ==
  ASSUME NEW V, NEW N \in Nat
  PROVE  \E f : f = [n \in 0..N |-> PutFrom(V, n, f)]
<1> DEFINE Has(k) == \E f : f = [n \in 0..k |-> PutFrom(V, n, f)]
           W == {k \in Nat : ~Has(k)}
<1>1. SUFFICES ASSUME W # {} PROVE FALSE
  BY <1>1 DEF W
<1>2. PICK k \in W : \A c \in W : k <= c
  BY <1>1, LeastOf
<1>3. CASE k = 0
  <2> DEFINE f == [n \in 0..0 |-> PutFrom(V, 0, <<>>)]
  <2>1. f = [n \in 0..0 |-> PutFrom(V, n, f)]
    BY DEF PutFrom
  <2>2. Has(0)
    <3> HIDE DEF f
    <3> QED BY <2>1
  <2> QED BY <1>2, <1>3, <2>2
<1>4. CASE k # 0
  <2>1. k \in Nat /\ k - 1 \in Nat /\ ~(k <= k - 1) /\ k # k - 1
    BY <1>2, <1>4
  <2>2. Has(k - 1)
    BY <1>2, <2>1
  <2>3. PICK f : f = [n \in 0..(k - 1) |-> PutFrom(V, n, f)]
    BY <2>2
  <2> DEFINE g == [n \in 0..k |-> PutFrom(V, n, f)]
  <2>4. \A n \in 0..(k - 1) : n \in 0..k /\ f[n] = PutFrom(V, n, f) /\ g[n] = PutFrom(V, n, f)
    BY <2>1, <2>3
  <2>5. \A n \in 0..k : n # 0 => n - 1 \in 0..(k - 1)
    BY <2>1
  <2> HIDE DEF g
  <2>6. \A n \in 0..k : PutFrom(V, n, f) = PutFrom(V, n, g)
    <3>1. \A n \in 0..k : n # 0 => f[n - 1] = g[n - 1]
      BY <2>4, <2>5
    <3> QED BY <3>1 DEF PutFrom
  <2>7. g = [n \in 0..k |-> PutFrom(V, n, g)]
    BY <2>6 DEF g
  <2>8. Has(k)
    BY <2>7
  <2> QED BY <1>2, <2>8
<1> QED BY <1>3, <1>4

(* What stands up to position n *)
Arranged(V, n, s) ==
  /\ s \in Seq(V)
  /\ \A k \in 1..Len(s) : X!Position(s[k]) <= n
  /\ \A k, c \in 1..Len(s) : k < c => X!Position(s[k]) < X!Position(s[c])
  /\ \A x \in V : X!Position(x) <= n => \E k \in 1..Len(s) : s[k] = x

LEMMA PutKeeps ==
  ASSUME ContextTyped, NEW V \in SUBSET X!Everything, NEW n \in Nat, NEW s, Arranged(V, n - 1, s)
  PROVE  Arranged(V, n, IF Here(V, n) = {} THEN s ELSE Append(s, CHOOSE x \in Here(V, n) : TRUE))
<1>1. \A x \in V : X!Position(x) \in Nat
  BY PositionIs
<1>2. /\ s \in Seq(V) /\ Len(s) \in Nat
      /\ \A k \in 1..Len(s) : s[k] \in V /\ X!Position(s[k]) <= n - 1
      /\ \A k, c \in 1..Len(s) : k < c => X!Position(s[k]) < X!Position(s[c])
      /\ \A x \in V : X!Position(x) <= n - 1 => \E k \in 1..Len(s) : s[k] = x
  BY ElementOfSeq, LenProperties DEF Arranged
<1>3. CASE Here(V, n) = {}
  <2>1. \A x \in V : X!Position(x) # n
    BY <1>3 DEF Here
  <2>2. \A x \in V : X!Position(x) <= n => X!Position(x) <= n - 1
    BY <1>1, <2>1
  <2>3. \A k \in 1..Len(s) : X!Position(s[k]) <= n
    BY <1>1, <1>2
  <2> QED BY <1>2, <1>3, <2>2, <2>3 DEF Arranged
<1>4. CASE Here(V, n) # {}
  <2> DEFINE x == CHOOSE x \in Here(V, n) : TRUE
             t == Append(s, x)
  <2>1. x \in Here(V, n)
    BY <1>4
  <2> HIDE DEF x
  <2>2. x \in V /\ X!Position(x) = n
    BY <2>1 DEF Here
  <2>3. /\ t \in Seq(V) /\ Len(t) = Len(s) + 1 /\ t[Len(s) + 1] = x
        /\ \A k \in 1..Len(s) : t[k] = s[k]
    BY <1>2, <2>2, AppendProperties
  <2> HIDE DEF t
  <2>4. \A k \in 1..Len(t) : k \in 1..Len(s) \/ k = Len(s) + 1
    BY <1>2, <2>3
  <2>5. \A k \in 1..Len(t) : X!Position(t[k]) <= n
    <3>1. TAKE k \in 1..Len(t)
    <3>2. CASE k \in 1..Len(s)
      BY <1>1, <1>2, <2>3, <3>2
    <3>3. CASE k = Len(s) + 1
      BY <2>2, <2>3, <3>3
    <3> QED BY <2>4, <3>2, <3>3
  <2>6. \A k, c \in 1..Len(t) : k < c => X!Position(t[k]) < X!Position(t[c])
    <3>1. TAKE k, c \in 1..Len(t)
    <3>2. HAVE k < c
    <3>3. k \in 1..Len(s)
      BY <1>2, <2>3, <3>2
    <3>4. CASE c \in 1..Len(s)
      BY <1>2, <2>3, <3>2, <3>3, <3>4
    <3>5. CASE c = Len(s) + 1
      BY <1>1, <1>2, <2>2, <2>3, <3>3, <3>5
    <3> QED BY <2>4, <3>4, <3>5
  <2>7. ASSUME NEW y \in V, X!Position(y) <= n PROVE \E k \in 1..Len(t) : t[k] = y
    <3>1. CASE X!Position(y) = n
      <4>1. y = x
        BY <2>2, <3>1, PositionIs
      <4>2. Len(s) + 1 \in 1..Len(t)
        BY <1>2, <2>3
      <4> QED BY <2>3, <4>1, <4>2
    <3>2. CASE X!Position(y) # n
      <4>1. X!Position(y) <= n - 1
        BY <1>1, <2>7, <3>2
      <4>2. PICK k \in 1..Len(s) : s[k] = y
        BY <1>2, <4>1
      <4>3. k \in 1..Len(t)
        BY <1>2, <2>3
      <4> QED BY <2>3, <4>2, <4>3
    <3> QED BY <3>1, <3>2
  <2>8. Arranged(V, n, t)
    BY <2>3, <2>5, <2>6, <2>7 DEF Arranged
  <2> QED BY <1>4, <2>8 DEF t, x
<1> QED BY <1>3, <1>4

LEMMA RequestIs ==
  ASSUME ContextTyped, NEW V \in SUBSET X!Everything
  PROVE  Arranged(V, LastPosition, X!Request(V))
<1> DEFINE N == 3 + Len(earlier) + Len(messages)
           Is(f) == f = [n \in 0..N |-> PutFrom(V, n, f)]
           f == CHOOSE f : Is(f)
<1>0. N \in Nat /\ N = LastPosition
  BY PositionIs DEF LastPosition
<1>1. Is(f)
  <2> HIDE DEF N
  <2>1. \E g : Is(g)
    BY <1>0, RequestExists
  <2> QED BY <2>1
<1>2. X!Request(V) = f[N]
  BY DEF X!Request, PutFrom, Here
<1> HIDE DEF f, N
<1> DEFINE W == {n \in 0..N : ~Arranged(V, n, f[n])}
<1>3. ASSUME W # {} PROVE FALSE
  <2>1. W \in SUBSET Nat
    OBVIOUS
  <2>2. PICK n \in W : \A k \in W : n <= k
    BY <1>3, <2>1, LeastOf
  <2>3. n \in Nat /\ f[n] = PutFrom(V, n, f)
    BY <1>0, <1>1, <2>2
  <2>4. Arranged(V, n - 1, IF n = 0 THEN <<>> ELSE f[n - 1])
    <3>1. CASE n = 0
      <4>1. \A x \in V : ~(X!Position(x) <= 0 - 1)
        BY PositionIs
      <4>2. <<>> \in Seq(V) /\ Len(<<>>) = 0
        BY EmptySeq
      <4> QED BY <3>1, <4>1, <4>2 DEF Arranged
    <3>2. CASE n # 0
      <4>1. n - 1 \in 0..N /\ ~(n <= n - 1)
        BY <1>0, <2>2, <2>3, <3>2
      <4> QED BY <2>2, <3>2, <4>1
    <3> QED BY <3>1, <3>2
  <2>5. Arranged(V, n, f[n])
    BY <2>3, <2>4, PutKeeps DEF PutFrom
  <2> QED BY <2>2, <2>5
<1>4. N \in 0..N
  BY <1>0
<1> QED BY <1>0, <1>2, <1>3, <1>4


LEMMA PartsAre ==
  ASSUME ContextTyped
  PROVE  /\ \A q \in 1..Len(messages) :
              /\ X!Part("run", q) \in X!Everything
              /\ X!Position(X!Part("run", q)) = 3 + Len(earlier) + q
         /\ \A t \in 1..Len(earlier) :
              /\ X!Part("turn", t) \in X!Everything
              /\ X!Position(X!Part("turn", t)) = 1 + Len(earlier) - t
              /\ X!Size[X!Part("turn", t)] = earlier[t]
         /\ \A kind, n : X!Part(kind, n).kind = kind /\ X!Part(kind, n).index = n
<1>1. DOMAIN messages = 1..Len(messages) /\ DOMAIN earlier = 1..Len(earlier)
  BY MessagesAre
<1>2. \A kind, n : X!Part(kind, n).kind = kind /\ X!Part(kind, n).index = n
  BY DEF X!Part
<1>3. /\ \A q \in 1..Len(messages) : X!Part("run", q) \in X!Everything
      /\ \A t \in 1..Len(earlier) : X!Part("turn", t) \in X!Everything
  BY <1>1 DEF X!Everything
<1>4. ASSUME NEW q \in 1..Len(messages) PROVE X!Position(X!Part("run", q)) = 3 + Len(earlier) + q
  BY <1>2 DEF X!Position
<1>5. ASSUME NEW t \in 1..Len(earlier)
      PROVE  /\ X!Position(X!Part("turn", t)) = 1 + Len(earlier) - t
             /\ X!Size[X!Part("turn", t)] = earlier[t]
  BY <1>2, <1>3 DEF X!Position, X!Size
<1> QED BY <1>2, <1>3, <1>4, <1>5

LEMMA NextStands ==
  ASSUME ContextTyped, NEW V \in SUBSET X!Everything, NEW r, Arranged(V, LastPosition, r),
         NEW k \in 1..Len(r), NEW x \in V, X!Position(x) = X!Position(r[k]) + 1
  PROVE  k + 1 \in 1..Len(r) /\ r[k + 1] = x
<1>1. /\ Len(r) \in Nat
      /\ \A c \in 1..Len(r) : r[c] \in V /\ X!Position(r[c]) \in Int
      /\ \A c, d \in 1..Len(r) : c < d => X!Position(r[c]) < X!Position(r[d])
      /\ X!Position(x) <= LastPosition
  <2>1. \A y \in V : X!Position(y) \in Int /\ X!Position(y) <= LastPosition
    BY PositionIs
  <2>2. /\ Len(r) \in Nat /\ \A c \in 1..Len(r) : r[c] \in V
        /\ \A c, d \in 1..Len(r) : c < d => X!Position(r[c]) < X!Position(r[d])
    BY ElementOfSeq, LenProperties DEF Arranged
  <2> QED BY <2>1, <2>2
<1>2. PICK c \in 1..Len(r) : r[c] = x
  BY <1>1 DEF Arranged
<1>3. CASE c <= k
  <2>1. c = k \/ c < k
    BY <1>1, <1>3
  <2>2. X!Position(r[c]) <= X!Position(r[k])
    BY <1>1, <2>1
  <2> QED BY <1>1, <1>2, <2>2
<1>4. CASE c > k + 1
  <2>1. k + 1 \in 1..Len(r) /\ k < k + 1 /\ k + 1 < c
    BY <1>1, <1>2, <1>4
  <2>2. X!Position(r[k]) < X!Position(r[k + 1]) /\ X!Position(r[k + 1]) < X!Position(r[c])
    BY <1>1, <2>1
  <2>3. PICK p \in Int, q \in Int : p = X!Position(r[k]) /\ q = X!Position(r[k + 1])
    BY <1>1, <2>1
  <2> QED BY <1>2, <2>2, <2>3
<1>5. CASE c = k + 1
  BY <1>2, <1>5
<1> QED BY <1>1, <1>3, <1>4, <1>5

Following(V, p, n) == \A c \in 1..n : X!Part("run", p + c) \in V /\ p + c \in 1..Len(messages)
SideBySide(r, k, p, n) == \A c \in 1..n : k + c \in 1..Len(r) /\ r[k + c] = X!Part("run", p + c)

(* Those that follow each other stand side by side. *)
LEMMA RunStands ==
  ASSUME ContextTyped, NEW V \in SUBSET X!Everything, NEW r, Arranged(V, LastPosition, r),
         NEW k \in 1..Len(r), NEW p \in 1..Len(messages), NEW n \in Nat,
         r[k] = X!Part("run", p), Following(V, p, n)
  PROVE  SideBySide(r, k, p, n)
<1> DEFINE StandsAt(c) == k + c \in 1..Len(r) /\ r[k + c] = X!Part("run", p + c)
           W == {c \in 1..n : ~StandsAt(c)}
<1>0. Len(r) \in Nat /\ Len(messages) \in Nat /\ Len(earlier) \in Nat
  BY MessagesAre, LenProperties DEF Arranged
<1>1. SUFFICES ASSUME W # {} PROVE FALSE
  BY <1>1 DEF SideBySide
<1>2. W \in SUBSET Nat
  OBVIOUS
<1>3. PICK c \in W : \A d \in W : c <= d
  BY <1>1, <1>2, LeastOf
<1> DEFINE b == c - 1
<1>4. b \in Nat /\ b \notin W /\ c = b + 1 /\ b <= n
  <2>1. b \in Nat /\ c = b + 1 /\ b <= n /\ ~(c <= b)
    BY <1>3
  <2> HIDE DEF b, W
  <2> QED BY <1>3, <2>1
<1>5. p + b \in 1..Len(messages) /\ k + b \in 1..Len(r) /\ r[k + b] = X!Part("run", p + b)
  <2>1. CASE b = 0
    <3>1. p + b = p /\ k + b = k
      BY <1>0, <2>1
    <3> HIDE DEF b
    <3> QED BY <3>1
  <2>2. CASE b # 0
    <3>1. b \in 1..n
      BY <1>4, <2>2
    <3>2. StandsAt(b)
      <4> HIDE DEF b
      <4> QED BY <1>4, <3>1
    <3> QED BY <3>1, <3>2 DEF Following
  <2> QED BY <2>1, <2>2
<1>6. X!Part("run", p + c) \in V /\ p + c \in 1..Len(messages) /\ p + c = (p + b) + 1 /\ k + c = (k + b) + 1
  BY <1>0, <1>3 DEF Following
<1> HIDE DEF b
<1>7. X!Position(X!Part("run", p + c)) = X!Position(r[k + b]) + 1
  <2>1. /\ X!Position(X!Part("run", p + b)) = 3 + Len(earlier) + (p + b)
        /\ X!Position(X!Part("run", p + c)) = 3 + Len(earlier) + (p + c)
    BY <1>5, <1>6, PartsAre
  <2>2. X!Position(r[k + b]) = 3 + Len(earlier) + (p + b)
    BY <1>5, <2>1
  <2> QED BY <1>0, <1>4, <1>6, <2>1, <2>2
<1>8. (k + b) + 1 \in 1..Len(r) /\ r[(k + b) + 1] = X!Part("run", p + c)
  <2> DEFINE d == k + b
             x == X!Part("run", p + c)
  <2>1. d \in 1..Len(r) /\ x \in V /\ X!Position(x) = X!Position(r[d]) + 1
    BY <1>5, <1>6, <1>7
  <2> HIDE DEF d, x
  <2>2. \A g \in 1..Len(r), h \in V :
          X!Position(h) = X!Position(r[g]) + 1 => g + 1 \in 1..Len(r) /\ r[g + 1] = h
    BY NextStands
  <2>3. d + 1 \in 1..Len(r) /\ r[d + 1] = x
    BY <2>1, <2>2
  <2> QED BY <2>3 DEF d, x
<1>9. StandsAt(c)
  BY <1>6, <1>8
<1> QED BY <1>3, <1>9

LEMMA LatestIs ==
  ASSUME NEW N \in Nat, NEW V \in SUBSET (1..N), V # {}
  PROVE  X!Max(V) \in V /\ \A n \in V : n <= X!Max(V)
<1> DEFINE W == {N - n : n \in V}
<1>0. \A n \in V : n \in Nat /\ N - n \in Nat
  OBVIOUS
<1>1. W \in SUBSET Nat /\ W # {}
  BY <1>0
<1>2. PICK c \in W : \A d \in W : c <= d
  BY <1>1, LeastOf
<1>3. PICK m \in V : c = N - m
  BY <1>2
<1>4. \A n \in V : n <= m
  <2>1. TAKE n \in V
  <2>2. N - m <= N - n
    BY <1>2, <1>3
  <2> QED BY <1>0, <1>3, <2>2
<1>5. \E x \in V : \A n \in V : x >= n
  BY <1>4
<1>6. X!Max(V) \in V /\ \A n \in V : X!Max(V) >= n
  BY <1>5 DEF X!Max
<1> QED BY <1>6

-----------------------------------------------------------------------------
(* What is chosen is whole *)

Chosen == X!Selection.chosen
Held == Contents(Chosen)

LEMMA ChosenAre ==
  ASSUME ContextTyped, ~X!Selection.exceeded
  PROVE  /\ Chosen \in SUBSET X!AllCandidates
         /\ Held \in SUBSET X!Everything /\ IsFiniteSet(Held)
         /\ {X!Part("system", 0), X!Part("question", 0), X!Part("data", 0)} \subseteq Held
         /\ Total(X!Size, Held) \in Nat /\ Total(X!Size, Held) + 1 <= budget
         /\ \A c \in X!AllCandidates : c.size + Total(X!Size, Held) + 1 <= budget => c \in Chosen
         /\ \A p \in X!Starts : GroupRequired(p) => GroupCandidate(p) \in Chosen
<1> DEFINE s == X!Selection
           w == Total(X!Size, Held)
<1>1. /\ s.left \in Int /\ Chosen \subseteq X!AllCandidates /\ s.left + w = budget - 1
      /\ Chosen # {} => s.left >= 0
      /\ \A c \in X!AllCandidates \ Chosen : c.size > s.left
      /\ \A c \in X!AllCandidates : c.required => c \in Chosen
  BY SelectionIs DEF Selects, Chosen, Held
<1>2. /\ Held \subseteq X!Everything /\ IsFiniteSet(Held) /\ w \in Nat /\ budget \in Nat
  BY <1>1, ContentsAre DEF Held, ContextTyped
<1>3. TaskCandidate \in Chosen /\ DataCandidate \in Chosen
  <2>1. TaskCandidate.required /\ DataCandidate.required
    BY CandidateIs DEF TaskCandidate, DataCandidate
  <2> QED BY <1>1, <2>1, CandidatesInto
<1>4. TaskParts \subseteq Held /\ {X!Part("data", 0)} \subseteq Held
  BY <1>3, CandidatesHave DEF CandidateHas, Held, Contents
<1>5. ASSUME NEW p \in X!Starts, GroupRequired(p) PROVE GroupCandidate(p) \in Chosen
  <2>1. Len(messages) - p \in Nat
    BY MessagesAre
  <2>2. GroupCandidate(p).required = GroupRequired(p)
    BY <2>1, CandidateIs DEF GroupCandidate
  <2> QED BY <1>1, <1>5, <2>2, CandidatesInto
<1>6. \A c \in X!AllCandidates : c.size \in Nat
  BY CandidatesAre
<1> HIDE DEF s, w
<1>7. w + 1 <= budget
  BY <1>1, <1>2, <1>3
<1>8. \A c \in X!AllCandidates : c.size + w + 1 <= budget => c \in Chosen
  BY <1>1, <1>2, <1>6
<1> QED BY <1>1, <1>2, <1>4, <1>5, <1>7, <1>8 DEF w, TaskParts

(* Groups are chosen whole. *)
LEMMA GroupsChosen ==
  ASSUME ContextTyped, ~X!Selection.exceeded
  PROVE  /\ \A p \in X!Starts : GroupCandidate(p) \in Chosen =>
              \A q \in p..(p + messages[p].calls) : X!Part("run", q) \in Held
         /\ \A q \in 1..Len(messages) : X!Part("run", q) \in Held =>
              \E p \in X!Starts : GroupCandidate(p) \in Chosen /\ q \in p..(p + messages[p].calls)
<1>1. ASSUME NEW p \in X!Starts, GroupCandidate(p) \in Chosen, NEW q \in p..(p + messages[p].calls)
      PROVE  X!Part("run", q) \in Held
  <2>1. GroupCandidate(p).parts = X!GroupParts(p)
    BY CandidatesHave DEF CandidateHas
  <2>2. q \in X!GroupAt(p)
    BY GroupIs
  <2>3. X!Part("run", q) \in GroupCandidate(p).parts
    BY <2>1, <2>2 DEF X!GroupParts
  <2> QED BY <1>1, <2>3 DEF Held, Contents
<1>2. ASSUME NEW q \in 1..Len(messages), X!Part("run", q) \in Held
      PROVE  \E p \in X!Starts : GroupCandidate(p) \in Chosen /\ q \in p..(p + messages[p].calls)
  <2> DEFINE x == X!Part("run", q)
  <2>1. x.kind = "run" /\ x.index = q
    BY PartsAre
  <2>2. PICK c \in Chosen : x \in c.parts
    BY <1>2 DEF Held, Contents
  <2>3. c \in X!AllCandidates
    BY ChosenAre
  <2>4. ASSUME NEW parts, CandidateHas(c, parts) PROVE x \in parts
    BY <2>2, <2>4 DEF CandidateHas
  <2> HIDE DEF x
  <2>5. c # TaskCandidate /\ c # DataCandidate /\ c # CatalogsCandidate
    BY <2>1, <2>4, CandidatesHave DEF TaskParts, X!Part
  <2>6. ASSUME NEW t \in 1..Len(earlier), c = TurnCandidate(t) PROVE FALSE
    <3>1. x = X!Part("turn", t)
      BY <2>4, <2>6, CandidatesHave
    <3>2. x.kind = "turn"
      BY <3>1, PartsAre
    <3> QED BY <2>1, <3>2
  <2>7. PICK p \in X!Starts : c = GroupCandidate(p)
    BY <2>3, <2>5, <2>6, CandidatesFrom
  <2>8. x \in X!GroupParts(p)
    BY <2>4, <2>7, CandidatesHave
  <2>9. PICK s \in X!GroupAt(p) : x = X!Part("run", s)
    BY <2>8 DEF X!GroupParts
  <2>10. s = q
    BY <2>1, <2>9 DEF X!Part
  <2> QED BY <2>2, <2>7, <2>9, <2>10, GroupIs
<1> QED BY <1>1, <1>2

(* The latest response and the latest results are required. *)
LEMMA LatestRequired ==
  ASSUME ContextTyped
  PROVE  /\ messages # <<>> =>
              \E p \in X!Starts : GroupRequired(p) /\ Len(messages) \in p..(p + messages[p].calls)
         /\ \A q \in 1..Len(messages) :
              /\ messages[q].role = "tool"
              /\ \A s \in 1..Len(messages) : s > q => messages[s].role # "tool"
              => \E p \in X!Starts : GroupRequired(p) /\ q \in p..(p + messages[p].calls)
<1> DEFINE N == Len(messages)
           with == {p \in X!Starts : messages[p].calls > 0}
<1>1. /\ N \in Nat /\ DOMAIN messages = 1..N /\ X!Starts \in SUBSET (1..N)
      /\ \A p \in 1..N : messages[p] \in MessageRecords
      /\ \A p \in X!Starts : messages[p].role = "assistant" /\ messages[p].calls \in Nat
      /\ \A p \in 1..N : p \in X!Starts <=> messages[p].role = "assistant"
      /\ Len(messages) = N
  BY MessagesAre DEF X!Starts
<1>2. /\ \A p \in X!Starts : \A j \in 1..messages[p].calls :
           p + j \in 1..N /\ messages[p + j].role = "tool" /\ messages[p + j].of = p
      /\ \A p \in 1..N : messages[p].role = "tool" =>
         /\ messages[p].of \in 1..(p - 1) /\ messages[messages[p].of].role = "assistant"
         /\ p <= messages[p].of + messages[messages[p].of].calls
  BY <1>1 DEF ContextTyped, Grouped
<1> HIDE DEF N
<1>3. \A q \in 1..N : messages[q].role = "tool" =>
        \E p \in X!Starts : p < q /\ q <= p + messages[p].calls
  <2>1. TAKE q \in 1..N
  <2>2. HAVE messages[q].role = "tool"
  <2>3. PICK o \in 1..(q - 1) : o = messages[q].of
    BY <1>2, <2>2
  <2>4. o \in 1..N /\ o < q /\ messages[o].role = "assistant" /\ q <= o + messages[o].calls
    BY <1>1, <1>2, <2>2, <2>3
  <2> QED BY <1>1, <2>4
<1>4. ASSUME messages # <<>>
      PROVE  \E p \in X!Starts : GroupRequired(p) /\ N \in p..(p + messages[p].calls)
  <2>1. N \in 1..N
    <3>1. N # 0
      BY <1>1, <1>4, EmptySeq DEF ContextTyped
    <3> QED BY <1>1, <3>1
  <2>2. PICK s \in X!Starts : s <= N /\ N <= s + messages[s].calls
    <3>1. CASE messages[N].role = "tool"
      BY <1>1, <1>3, <2>1, <3>1
    <3>2. CASE messages[N].role # "tool"
      <4>1. N \in X!Starts /\ messages[N].calls \in Nat
        BY <1>1, <2>1, <3>2 DEF MessageRecords
      <4> QED BY <1>1, <4>1
    <3> QED BY <3>1, <3>2
  <2> DEFINE p == X!Max(X!Starts)
  <2>3. p \in X!Starts /\ \A n \in X!Starts : n <= p
    BY <1>1, <2>2, LatestIs
  <2>4. GroupRequired(p)
    BY <2>2 DEF GroupRequired, X!LatestGroup
  <2> HIDE DEF p
  <2>5. N \in p..(p + messages[p].calls)
    <3>1. CASE p = s
      BY <1>1, <2>2, <3>1
    <3>2. CASE p # s
      <4>1. s < p /\ p <= N /\ s \in Nat /\ messages[s].calls \in Nat /\ p \in Nat
        BY <1>1, <2>2, <2>3, <3>2
      <4>2. p - s \in 1..messages[s].calls /\ p = s + (p - s)
        BY <1>1, <2>2, <4>1
      <4>3. messages[p].role = "tool"
        BY <1>2, <4>2
      <4> QED BY <1>1, <2>3, <4>3
    <3> QED BY <3>1, <3>2
  <2> QED BY <2>3, <2>4, <2>5
<1>5. ASSUME NEW q \in 1..N, messages[q].role = "tool",
             \A s \in 1..N : s > q => messages[s].role # "tool"
      PROVE  \E p \in X!Starts : GroupRequired(p) /\ q \in p..(p + messages[p].calls)
  <2>1. PICK o \in X!Starts : o < q /\ q <= o + messages[o].calls
    BY <1>3, <1>5
  <2>2. o \in 1..N /\ messages[o].calls \in Nat /\ messages[o].calls > 0
    BY <1>1, <2>1
  <2> DEFINE p == X!Max(with)
  <2>3. p \in with /\ \A n \in with : n <= p
    <3>1. o \in with /\ with \in SUBSET (1..N)
      BY <1>1, <2>1, <2>2
    <3> HIDE DEF with
    <3> QED BY <1>1, <3>1, LatestIs
  <2>4. GroupRequired(p)
    BY <2>3 DEF GroupRequired, X!LatestToolGroup
  <2> HIDE DEF p
  <2>5. p \in X!Starts /\ p \in 1..N /\ messages[p].calls \in Nat /\ messages[p].calls > 0 /\ o <= p
    BY <1>1, <2>1, <2>2, <2>3
  <2>6. CASE p = o
    BY <1>1, <2>1, <2>2, <2>4, <2>5, <2>6
  <2>7. CASE p # o
    <3>1. p + 1 \in 1..N /\ messages[p + 1].role = "tool"
      BY <1>1, <1>2, <2>5
    <3>2. ~(p + 1 > q)
      BY <1>5, <3>1
    <3>3. p - o \in 1..messages[o].calls /\ p = o + (p - o)
      BY <1>1, <2>1, <2>2, <2>5, <2>7, <3>2
    <3>4. messages[p].role = "tool"
      BY <1>2, <2>1, <3>3
    <3> QED BY <1>1, <2>5, <3>4
  <2> QED BY <2>6, <2>7
<1> QED BY <1>4, <1>5 DEF N

PlacesOf(r, kind) == {k \in DOMAIN r : r[k].kind = kind}

CostOf(r) == X!SumFunction([k \in DOMAIN r |-> X!Size[r[k]]])

LEMMA CostIs ==
  ASSUME ContextTyped, NEW V \in SUBSET X!Everything, NEW r, Arranged(V, LastPosition, r)
  PROVE  CostOf(r) = Total(X!Size, V)
<1> DEFINE N == Len(r)
           f == [k \in 1..N |-> X!Size[r[k]]]
<1>1. /\ N \in Nat /\ DOMAIN r = 1..N /\ \A k \in 1..N : r[k] \in V
      /\ \A k, c \in 1..N : k < c => X!Position(r[k]) < X!Position(r[c])
      /\ \A x \in V : \E k \in 1..N : r[k] = x
  <2>1. \A x \in V : X!Position(x) <= LastPosition
    BY PositionIs
  <2> QED BY <2>1, ElementOfSeq, LenProperties DEF Arranged
<1>2. IsFiniteSet(1..N)
  BY <1>1, FS_Interval
<1>3. \A k \in 1..N : f[k] \in Nat /\ f[k] = X!Size[r[k]]
  BY <1>1, EverythingIs
<1>4. \A k, c \in 1..N : r[k] = r[c] => k = c
  <2>1. TAKE k, c \in 1..N
  <2>2. HAVE r[k] = r[c]
  <2>3. PICK n \in Int : n = X!Position(r[k])
    BY <1>1, PositionIs
  <2>4. ~(k < c) /\ ~(c < k)
    BY <1>1, <2>2, <2>3
  <2> QED BY <1>1, <2>4
<1>6. CostOf(r) = Total(f, 1..N)
  <2>1. DOMAIN f = 1..N
    OBVIOUS
  <2> QED BY <1>1, <2>1 DEF CostOf, Total, X!SumFunction
<1> HIDE DEF f, N
<1>7. Total(f, 1..N) = Total(X!Size, V)
  <2>1. (\A k \in 1..N : r[k] \in V) /\ \A x \in V : \E k \in 1..N : x = r[k]
    BY <1>1
  <2>2. PICK U : U = 1..N
    OBVIOUS
  <2>3. /\ IsFiniteSet(U) /\ \A k \in U : f[k] \in Nat /\ f[k] = X!Size[r[k]]
        /\ \A k, c \in U : r[k] = r[c] => k = c
        /\ (\A k \in U : r[k] \in V) /\ \A x \in V : \E k \in U : x = r[k]
    BY <1>2, <1>3, <1>4, <2>1, <2>2
  <2>4. Total(f, U) = Total(X!Size, V)
    BY <2>3, TotalRenamed
  <2> QED BY <2>2, <2>4
<1> QED BY <1>6, <1>7

RunIn(r) == {r[k].index : k \in PlacesOf(r, "run")}

(* RequestIsWhole of what could be sent *)
AnswersTogether(r) ==
  \A k \in PlacesOf(r, "run") :
    LET m == messages[r[k].index]
    IN  IF m.role = "tool" THEN m.of \in RunIn(r)
        ELSE \A j \in 1..m.calls : r[k + j] = X!Part("run", r[k].index + j)

InTheirOrder(r) ==
  /\ \A k, c \in PlacesOf(r, "run") : k < c => r[k].index < r[c].index
  /\ \A k, c \in PlacesOf(r, "turn") : k < c => r[k].index > r[c].index

HasLatest(r) ==
  /\ {"system", "question", "data"} \subseteq {r[k].kind : k \in DOMAIN r}
  /\ messages # <<>> => Len(messages) \in RunIn(r)
  /\ \A p \in DOMAIN messages :
       messages[p].role = "tool" /\ (\A q \in DOMAIN messages : q > p => messages[q].role # "tool") => p \in RunIn(r)

FillsBudget(r) ==
  /\ CostOf(r) + X!ToolsSize <= budget
  /\ \A t \in DOMAIN earlier :
       earlier[t] + CostOf(r) + X!ToolsSize <= budget => \E k \in PlacesOf(r, "turn") : r[k].index = t
  /\ \A p \in X!Starts :
       X!SumFunctionOnSet(X!Size, X!GroupParts(p)) + CostOf(r) + X!ToolsSize <= budget => p \in RunIn(r)

HeldBy(r) ==
  /\ DOMAIN r = 1..Len(r) /\ Len(r) \in Nat
  /\ \A k \in DOMAIN r : r[k] \in Held /\ X!Position(r[k]) \in Int
  /\ \A k, c \in DOMAIN r : k < c => X!Position(r[k]) < X!Position(r[c])
  /\ \A x \in Held : \E k \in DOMAIN r : r[k] = x
  /\ \A k \in PlacesOf(r, "run") : r[k] = X!Part("run", r[k].index) /\ r[k].index \in 1..Len(messages)
  /\ \A k \in PlacesOf(r, "turn") : r[k] = X!Part("turn", r[k].index) /\ r[k].index \in 1..Len(earlier)
  /\ \A q : X!Part("run", q) \in Held => q \in RunIn(r)

LEMMA ArrangedHolds ==
  ASSUME ContextTyped, ~X!Selection.exceeded, NEW r, Arranged(Held, LastPosition, r)
  PROVE  HeldBy(r)
<1>1. Held \in SUBSET X!Everything
  BY ChosenAre
<1>2. \A x \in Held : X!Position(x) \in Int /\ X!Position(x) <= LastPosition
  BY <1>1, PositionIs
<1>3. /\ DOMAIN r = 1..Len(r) /\ Len(r) \in Nat
      /\ \A k \in DOMAIN r : r[k] \in Held
  BY ElementOfSeq, LenProperties DEF Arranged
<1>4. /\ \A k, c \in DOMAIN r : k < c => X!Position(r[k]) < X!Position(r[c])
      /\ \A x \in Held : \E k \in DOMAIN r : r[k] = x
  BY <1>2, <1>3 DEF Arranged
<1>5. ASSUME NEW k \in PlacesOf(r, "run")
      PROVE  r[k] = X!Part("run", r[k].index) /\ r[k].index \in 1..Len(messages)
  <2>1. r[k] \in X!Everything /\ r[k].kind = "run"
    BY <1>1, <1>3 DEF PlacesOf
  <2> QED BY <2>1, EverythingIs
<1>6. ASSUME NEW k \in PlacesOf(r, "turn")
      PROVE  r[k] = X!Part("turn", r[k].index) /\ r[k].index \in 1..Len(earlier)
  <2>1. r[k] \in X!Everything /\ r[k].kind = "turn"
    BY <1>1, <1>3 DEF PlacesOf
  <2> QED BY <2>1, EverythingIs
<1>7. ASSUME NEW q, X!Part("run", q) \in Held PROVE q \in RunIn(r)
  <2>1. PICK k \in DOMAIN r : r[k] = X!Part("run", q)
    BY <1>4, <1>7
  <2>2. r[k].kind = "run" /\ r[k].index = q
    BY <2>1 DEF X!Part
  <2> QED BY <2>2 DEF RunIn, PlacesOf
<1> QED BY <1>2, <1>3, <1>4, <1>5, <1>6, <1>7 DEF HeldBy

LEMMA AnswersStand ==
  ASSUME ContextTyped, ~X!Selection.exceeded, NEW r, Arranged(Held, LastPosition, r)
  PROVE  AnswersTogether(r)
<1>h. HeldBy(r)
  BY ArrangedHolds
<1> SUFFICES ASSUME NEW k \in PlacesOf(r, "run")
             PROVE  IF messages[r[k].index].role = "tool" THEN messages[r[k].index].of \in RunIn(r)
                    ELSE \A j \in 1..messages[r[k].index].calls : r[k + j] = X!Part("run", r[k].index + j)
  BY DEF AnswersTogether
<1>1. PICK q \in 1..Len(messages) : q = r[k].index
  BY <1>h DEF HeldBy
<1>2. r[k] = X!Part("run", q) /\ X!Part("run", q) \in Held /\ k \in 1..Len(r)
  BY <1>h, <1>1 DEF HeldBy, PlacesOf
<1>3. PICK p \in X!Starts : GroupCandidate(p) \in Chosen /\ q \in p..(p + messages[p].calls)
  BY <1>2, GroupsChosen
<1>4. /\ Len(messages) \in Nat /\ p \in 1..Len(messages) /\ messages[p].role = "assistant"
      /\ messages[p].calls \in Nat /\ messages[q] \in MessageRecords
      /\ \A j \in 1..messages[p].calls :
           p + j \in 1..Len(messages) /\ messages[p + j].role = "tool" /\ messages[p + j].of = p
  BY MessagesAre DEF ContextTyped, Grouped
<1>5. CASE messages[q].role = "tool"
  <2>1. q # p
    BY <1>4, <1>5
  <2>2. q - p \in 1..messages[p].calls /\ q = p + (q - p)
    BY <1>3, <1>4, <2>1
  <2>3. messages[q].of = p
    BY <1>4, <2>2
  <2>4. p \in p..(p + messages[p].calls)
    BY <1>4
  <2>5. X!Part("run", p) \in Held
    BY <1>3, <2>4, GroupsChosen
  <2> QED BY <1>h, <1>1, <1>5, <2>3, <2>5 DEF HeldBy
<1>6. CASE messages[q].role # "tool"
  <2>1. q = p
    <3>1. SUFFICES ASSUME q # p PROVE FALSE
      OBVIOUS
    <3>2. q - p \in 1..messages[p].calls /\ q = p + (q - p)
      BY <1>3, <1>4, <3>1
    <3> QED BY <1>4, <1>6, <3>2
  <2>2. \A j \in 1..messages[p].calls : X!Part("run", p + j) \in Held /\ p + j \in 1..Len(messages)
    <3>1. \A j \in 1..messages[p].calls : p + j \in p..(p + messages[p].calls)
      BY <1>4
    <3> QED BY <1>3, <1>4, <3>1, GroupsChosen
  <2>3. Held \in SUBSET X!Everything
    BY ChosenAre
  <2>4. \A j \in 1..messages[p].calls : k + j \in 1..Len(r) /\ r[k + j] = X!Part("run", p + j)
    <3>1. r[k] = X!Part("run", p)
      BY <1>2, <2>1
    <3>2. PICK n \in Nat : n = messages[p].calls
      BY <1>4
    <3>3. Following(Held, p, n)
      BY <2>2, <3>2 DEF Following
    <3>4. SideBySide(r, k, p, n)
      BY <1>2, <1>4, <2>3, <3>1, <3>3, RunStands
    <3> QED BY <3>2, <3>4 DEF SideBySide
  <2> QED BY <1>1, <1>6, <2>1, <2>4
<1> QED BY <1>1, <1>5, <1>6

LEMMA OrderStands ==
  ASSUME ContextTyped, ~X!Selection.exceeded, NEW r, Arranged(Held, LastPosition, r)
  PROVE  InTheirOrder(r)
<1>h. HeldBy(r)
  BY ArrangedHolds
<1>0. Len(messages) \in Nat /\ Len(earlier) \in Nat
  BY MessagesAre
<1>1. ASSUME NEW k \in PlacesOf(r, "run"), NEW c \in PlacesOf(r, "run"), k < c PROVE r[k].index < r[c].index
  <2>1. PICK p \in 1..Len(messages), q \in 1..Len(messages) :
          p = r[k].index /\ q = r[c].index /\ r[k] = X!Part("run", p) /\ r[c] = X!Part("run", q)
    BY <1>h DEF HeldBy
  <2>2. X!Position(r[k]) = 3 + Len(earlier) + p /\ X!Position(r[c]) = 3 + Len(earlier) + q
    BY <2>1, PartsAre
  <2>3. X!Position(r[k]) < X!Position(r[c])
    BY <1>h, <1>1 DEF HeldBy, PlacesOf
  <2> QED BY <1>0, <2>1, <2>2, <2>3
<1>2. ASSUME NEW k \in PlacesOf(r, "turn"), NEW c \in PlacesOf(r, "turn"), k < c PROVE r[k].index > r[c].index
  <2>1. PICK p \in 1..Len(earlier), q \in 1..Len(earlier) :
          p = r[k].index /\ q = r[c].index /\ r[k] = X!Part("turn", p) /\ r[c] = X!Part("turn", q)
    BY <1>h DEF HeldBy
  <2>2. X!Position(r[k]) = 1 + Len(earlier) - p /\ X!Position(r[c]) = 1 + Len(earlier) - q
    BY <2>1, PartsAre
  <2>3. X!Position(r[k]) < X!Position(r[c])
    BY <1>h, <1>2 DEF HeldBy, PlacesOf
  <2> QED BY <1>0, <2>1, <2>2, <2>3
<1> QED BY <1>1, <1>2 DEF InTheirOrder

LEMMA LatestStands ==
  ASSUME ContextTyped, ~X!Selection.exceeded, NEW r, Arranged(Held, LastPosition, r)
  PROVE  HasLatest(r)
<1>h. HeldBy(r)
  BY ArrangedHolds
<1>1. {"system", "question", "data"} \subseteq {r[k].kind : k \in DOMAIN r}
  <2>1. ASSUME NEW kind \in {"system", "question", "data"} PROVE \E k \in DOMAIN r : r[k].kind = kind
    <3>1. X!Part(kind, 0) \in Held
      BY ChosenAre
    <3>2. PICK k \in DOMAIN r : r[k] = X!Part(kind, 0)
      BY <1>h, <3>1 DEF HeldBy
    <3> QED BY <3>2 DEF X!Part
  <2> QED BY <2>1
<1>2. ASSUME NEW p \in X!Starts, GroupRequired(p), NEW q \in p..(p + messages[p].calls) PROVE q \in RunIn(r)
  <2>1. GroupCandidate(p) \in Chosen
    BY <1>2, ChosenAre
  <2>2. X!Part("run", q) \in Held
    BY <2>1, GroupsChosen
  <2> QED BY <1>h, <2>2 DEF HeldBy
<1>3. messages # <<>> => Len(messages) \in RunIn(r)
  BY <1>2, LatestRequired
<1>4. DOMAIN messages = 1..Len(messages)
  BY MessagesAre
<1>5. \A p \in DOMAIN messages :
        messages[p].role = "tool" /\ (\A q \in DOMAIN messages : q > p => messages[q].role # "tool") => p \in RunIn(r)
  BY <1>2, <1>4, LatestRequired
<1> QED BY <1>1, <1>3, <1>5 DEF HasLatest

LEMMA BudgetFilled ==
  ASSUME ContextTyped, ~X!Selection.exceeded, NEW r, Arranged(Held, LastPosition, r)
  PROVE  FillsBudget(r)
<1>h. HeldBy(r)
  BY ArrangedHolds
<1> DEFINE w == Total(X!Size, Held)
<1>1. /\ w \in Nat /\ w + 1 <= budget
      /\ \A c \in X!AllCandidates : c.size + w + 1 <= budget => c \in Chosen
  BY ChosenAre
<1>2. CostOf(r) = w
  BY ChosenAre, CostIs
<1> HIDE DEF w
<1>3. \A t \in 1..Len(earlier) : earlier[t] \in Nat
  BY MessagesAre
<1>4. ASSUME NEW t \in 1..Len(earlier), earlier[t] + w + 1 <= budget
      PROVE  \E k \in PlacesOf(r, "turn") : r[k].index = t
  <2> DEFINE x == X!Part("turn", t)
             c == TurnCandidate(t)
  <2>1. c \in X!AllCandidates /\ c.parts = {x} /\ c.size = Total(X!Size, {x})
    BY CandidatesInto, CandidatesHave DEF CandidateHas
  <2>2. x.kind = "turn" /\ x.index = t /\ X!Size[x] = earlier[t]
    BY PartsAre
  <2> HIDE DEF x, c
  <2>3. Total(X!Size, {x}) = earlier[t]
    <3>0. PICK V : V = {}
      OBVIOUS
    <3>1. IsFiniteSet(V) /\ x \notin V /\ V \cup {x} = {x}
      BY <3>0, FS_EmptySet
    <3>2. Total(X!Size, V \cup {x}) = Total(X!Size, V) + X!Size[x]
      BY <1>3, <2>2, <3>1, TotalMore
    <3>3. Total(X!Size, V) = 0
      BY <3>0, <3>1, TotalFrom
    <3>4. PICK n \in Nat : n = X!Size[x]
      BY <1>3, <2>2
    <3>5. Total(X!Size, V \cup {x}) = Total(X!Size, {x})
      BY <3>1, Zenon
    <3> QED BY <2>2, <3>2, <3>3, <3>4, <3>5
  <2>4. c \in Chosen
    BY <1>1, <1>4, <2>1, <2>3
  <2>5. x \in Held
    BY <2>1, <2>4 DEF Held, Contents
  <2>6. PICK k \in DOMAIN r : r[k] = x
    BY <1>h, <2>5 DEF HeldBy
  <2> QED BY <2>2, <2>6 DEF PlacesOf
<1>5. ASSUME NEW p \in X!Starts, Total(X!Size, X!GroupParts(p)) + w + 1 <= budget PROVE p \in RunIn(r)
  <2>1. GroupCandidate(p) \in X!AllCandidates /\ GroupCandidate(p).size = Total(X!Size, X!GroupParts(p))
    BY CandidatesInto, CandidatesHave DEF CandidateHas
  <2>2. GroupCandidate(p) \in Chosen
    BY <1>1, <1>5, <2>1
  <2>3. p \in p..(p + messages[p].calls)
    BY MessagesAre
  <2>4. X!Part("run", p) \in Held
    BY <2>2, <2>3, GroupsChosen
  <2> QED BY <1>h, <2>4 DEF HeldBy
<1>6. DOMAIN earlier = 1..Len(earlier)
  BY MessagesAre
<1> QED BY <1>1, <1>2, <1>4, <1>5, <1>6 DEF FillsBudget, X!ToolsSize, Total

-----------------------------------------------------------------------------
(* The context of suggested questions *)

FitFrom(rest, cs, h) ==
  IF rest + X!InAll(cs) > Limit /\ X!CanNarrow(cs) THEN h[X!Narrowed(cs)] ELSE cs

LEMMA NarrowedIs ==
  ASSUME NEW cs \in X!Widths
  PROVE  /\ cs[1] \in Nat /\ cs[2] \in Nat /\ X!InAll(cs) \in Nat
         /\ X!CanNarrow(cs) =>
              /\ X!Narrowed(cs) \in X!Widths /\ X!InAll(X!Narrowed(cs)) = X!InAll(cs) - 1
              /\ cs[1] > 0 => X!Narrowed(cs)[1] > 0
              /\ cs[2] > 0 => X!Narrowed(cs)[2] > 0
<1>1. PICK m \in 0..MaxColumns, n \in 0..MaxColumns : cs = <<m, n>>
  BY DEF X!Widths
<1>2. MaxColumns \in Nat /\ m \in Nat /\ n \in Nat /\ cs[1] = m /\ cs[2] = n
  BY <1>1, ServicesAssumption
<1>3. X!InAll(cs) = m + n
  BY <1>2 DEF X!InAll
<1>4. ASSUME X!CanNarrow(cs)
      PROVE  \E a \in 0..MaxColumns, b \in 0..MaxColumns :
               X!Narrowed(cs) = <<a, b>> /\ a + b = m + n - 1 /\ (m > 0 => a > 0) /\ (n > 0 => b > 0)
  <2>1. m > 1 \/ n > 1
    BY <1>2, <1>4 DEF X!CanNarrow
  <2>2. CASE n > m
    <3>1. X!Narrowed(cs) = <<m, n - 1>>
      BY <1>2, <2>2 DEF X!Narrowed
    <3>2. m \in 0..MaxColumns /\ n - 1 \in 0..MaxColumns /\ m + (n - 1) = m + n - 1 /\ n - 1 > 0
      BY <1>1, <1>2, <2>1, <2>2
    <3> QED BY <3>1, <3>2
  <2>3. CASE ~(n > m)
    <3>1. X!Narrowed(cs) = <<m - 1, n>>
      BY <1>2, <2>3 DEF X!Narrowed
    <3>2. m - 1 \in 0..MaxColumns /\ n \in 0..MaxColumns /\ (m - 1) + n = m + n - 1 /\ m - 1 > 0
      BY <1>1, <1>2, <2>1, <2>3
    <3> QED BY <3>1, <3>2
  <2> QED BY <2>2, <2>3
<1>5. ASSUME X!CanNarrow(cs)
      PROVE  /\ X!Narrowed(cs) \in X!Widths /\ X!InAll(X!Narrowed(cs)) = X!InAll(cs) - 1
             /\ cs[1] > 0 => X!Narrowed(cs)[1] > 0
             /\ cs[2] > 0 => X!Narrowed(cs)[2] > 0
  <2>1. PICK a \in 0..MaxColumns, b \in 0..MaxColumns :
          X!Narrowed(cs) = <<a, b>> /\ a + b = m + n - 1 /\ (m > 0 => a > 0) /\ (n > 0 => b > 0)
    BY <1>4, <1>5
  <2> DEFINE ds == X!Narrowed(cs)
  <2>2. ds = <<a, b>> /\ ds[1] = a /\ ds[2] = b
    BY <2>1
  <2> HIDE DEF ds
  <2>3. ds \in X!Widths
    BY <2>2 DEF X!Widths
  <2>4. X!InAll(ds) = a + b
    BY <2>2 DEF X!InAll
  <2> QED BY <1>2, <1>3, <2>1, <2>2, <2>3, <2>4 DEF ds
<1> QED BY <1>2, <1>3, <1>5

LEMMA FitExists ==
  ASSUME NEW rest
  PROVE  \E h : h = [cs \in X!Widths |-> FitFrom(rest, cs, h)]
<1> DEFINE Sets(k) == {cs \in X!Widths : X!InAll(cs) <= k}
           Has(k) == \E h : h = [cs \in Sets(k) |-> FitFrom(rest, cs, h)]
           W == {k \in Nat : ~Has(k)}
<1>0. MaxColumns \in Nat
  BY ServicesAssumption
<1>1. \A cs \in X!Widths : cs[1] \in Nat /\ cs[2] \in Nat /\ X!InAll(cs) \in Nat
  BY NarrowedIs
<1>2. ASSUME W # {} PROVE FALSE
  <2>1. W \in SUBSET Nat
    OBVIOUS
  <2>2. PICK k \in W : \A c \in W : k <= c
    BY <1>2, <2>1, LeastOf
  <2>3. CASE k = 0
    <3> DEFINE h == [cs \in Sets(0) |-> cs]
    <3>1. ASSUME NEW cs \in Sets(0) PROVE ~X!CanNarrow(cs)
      <4>1. cs[1] = 0 /\ cs[2] = 0
        BY <1>1, <3>1 DEF X!InAll
      <4> QED BY <4>1 DEF X!CanNarrow
    <3> HIDE DEF Sets
    <3>2. h = [cs \in Sets(0) |-> FitFrom(rest, cs, h)]
      BY <3>1 DEF FitFrom
    <3>3. Has(0)
      BY <3>2
    <3> QED BY <2>2, <2>3, <3>3
  <2>4. CASE k # 0
    <3>1. k - 1 \in Nat /\ ~(k <= k - 1)
      BY <2>2, <2>4
    <3>2. Has(k - 1)
      BY <2>2, <3>1
    <3>3. PICK g : g = [cs \in Sets(k - 1) |-> FitFrom(rest, cs, g)]
      BY <3>2
    <3> DEFINE h == [cs \in Sets(k) |-> FitFrom(rest, cs, g)]
    <3>4. \A cs \in Sets(k) : X!CanNarrow(cs) => X!Narrowed(cs) \in Sets(k - 1)
      BY <1>1, <2>2, NarrowedIs
    <3>5. \A cs \in Sets(k - 1) : cs \in Sets(k)
      BY <1>1, <2>2
    <3> HIDE DEF Sets
    <3>6. \A cs \in Sets(k - 1) : g[cs] = FitFrom(rest, cs, g) /\ h[cs] = FitFrom(rest, cs, g)
      BY <3>3, <3>5
    <3>7. \A cs \in Sets(k) : FitFrom(rest, cs, g) = FitFrom(rest, cs, h)
      BY <3>4, <3>6 DEF FitFrom
    <3>8. h = [cs \in Sets(k) |-> FitFrom(rest, cs, h)]
      BY <3>7
    <3>9. Has(k)
      BY <3>8
    <3> QED BY <2>2, <3>9
  <2> QED BY <2>3, <2>4
<1> DEFINE n == MaxColumns + MaxColumns
<1>3. n \in Nat
  BY <1>0
<1>4. Has(n)
  BY <1>2, <1>3
<1>5. Sets(n) = X!Widths
  <2>1. \A cs \in X!Widths : X!InAll(cs) <= n
    BY <1>0 DEF X!Widths, X!InAll
  <2> QED BY <2>1
<1> HIDE DEF Sets, n
<1> QED BY <1>4, <1>5

(* No table loses its last column, and none is cut where all fit. *)
CutWell(rest, cs, ds) ==
  /\ ds \in X!Widths
  /\ cs[1] > 0 => ds[1] > 0
  /\ cs[2] > 0 => ds[2] > 0
  /\ rest + X!InAll(cs) <= Limit => ds = cs

LEMMA FittedIs ==
  ASSUME NEW rest \in Nat, NEW cs \in X!Widths
  PROVE  CutWell(rest, cs, X!Fitted(rest)[cs])
<1> DEFINE Is(h) == h = [ds \in X!Widths |-> FitFrom(rest, ds, h)]
           f == CHOOSE h : Is(h)
<1>1. Is(f)
  BY FitExists
<1>2. X!Fitted(rest) = f
  BY DEF X!Fitted, FitFrom
<1>3. \A ds \in X!Widths : f[ds] = FitFrom(rest, ds, f)
  <2> HIDE DEF f
  <2> QED BY <1>1
<1> HIDE DEF f
<1> DEFINE Bad(n) == \E ds \in X!Widths : X!InAll(ds) = n /\ ~CutWell(rest, ds, f[ds])
           W == {n \in Nat : Bad(n)}
<1>4. ASSUME W # {} PROVE FALSE
  <2>1. W \in SUBSET Nat
    OBVIOUS
  <2>2. PICK n \in W : \A k \in W : n <= k
    BY <1>4, <2>1, LeastOf
  <2>3. PICK ds \in X!Widths : X!InAll(ds) = n /\ ~CutWell(rest, ds, f[ds])
    BY <2>2
  <2>4. Limit \in Nat /\ X!InAll(ds) \in Nat
    BY ServicesAssumption, NarrowedIs
  <2>5. CASE rest + X!InAll(ds) > Limit /\ X!CanNarrow(ds)
    <3> DEFINE es == X!Narrowed(ds)
    <3>1. /\ es \in X!Widths /\ X!InAll(es) = n - 1
          /\ ds[1] > 0 => es[1] > 0
          /\ ds[2] > 0 => es[2] > 0
      BY <2>3, <2>5, NarrowedIs
    <3>2. f[ds] = f[es]
      BY <1>3, <2>5 DEF FitFrom
    <3> HIDE DEF es
    <3>3. n \in Nat /\ X!InAll(es) \in Nat /\ ~(n <= n - 1)
      BY <2>3, <2>4, <3>1, NarrowedIs
    <3>4. ~Bad(n - 1)
      BY <2>2, <3>1, <3>3
    <3>5. CutWell(rest, es, f[es])
      BY <3>1, <3>4
    <3>6. ~(rest + X!InAll(ds) <= Limit)
      BY <2>4, <2>5
    <3> QED BY <2>3, <3>1, <3>2, <3>5, <3>6 DEF CutWell
  <2>6. CASE ~(rest + X!InAll(ds) > Limit /\ X!CanNarrow(ds))
    <3>1. f[ds] = ds
      BY <1>3, <2>6 DEF FitFrom
    <3> QED BY <2>3, <3>1 DEF CutWell
  <2> QED BY <2>5, <2>6
<1>5. CutWell(rest, cs, f[cs])
  <2>1. X!InAll(cs) \in Nat
    BY NarrowedIs
  <2> QED BY <1>4, <2>1
<1> QED BY <1>2, <1>5

LEMMA OrZero ==
  ASSUME NEW n \in Int
  PROVE  X!Max({0, n}) = IF n > 0 THEN n ELSE 0
<1>1. \E x \in {0, n} : \A y \in {0, n} : x >= y
  BY SMT
<1>2. X!Max({0, n}) \in {0, n} /\ \A y \in {0, n} : X!Max({0, n}) >= y
  BY <1>1 DEF X!Max
<1> QED BY <1>2

LEMMA FollowUpStep ==
  ASSUME X!FollowUp
  PROVE  X!FollowUpFits'
<1>1. PICK fixed \in 0..(Limit + 1), told \in 0..(Limit + 1), cs \in X!Widths :
        LET kept == X!Fitted(fixed + told)[cs]
            excess == X!Max({0, fixed + told + X!InAll(kept) - Limit})
        IN  more' = [fixed |-> fixed, told |-> told, had |-> cs, columns |-> kept,
                     answer |-> X!Max({0, told - excess})]
  BY DEF X!FollowUp
<1> DEFINE kept == X!Fitted(fixed + told)[cs]
           w == fixed + told + X!InAll(kept) - Limit
           excess == X!Max({0, w})
           left == X!Max({0, told - excess})
<1>2. more'.fixed = fixed /\ more'.told = told /\ more'.had = cs /\ more'.columns = kept /\ more'.answer = left
  BY <1>1
<1>3. fixed \in Nat /\ told \in Nat /\ Limit \in Nat /\ fixed + told \in Nat
  BY <1>1, ServicesAssumption
<1>4. CutWell(fixed + told, cs, kept)
  BY <1>3, FittedIs
<1> HIDE DEF kept
<1>5. X!InAll(kept) \in Nat /\ X!InAll(cs) \in Nat
  BY <1>4, NarrowedIs DEF CutWell
<1>6. w \in Int /\ excess = (IF w > 0 THEN w ELSE 0)
  <2>1. w \in Int
    BY <1>3, <1>5
  <2> HIDE DEF w
  <2> QED BY <2>1, OrZero
<1>7. left = IF told - excess > 0 THEN told - excess ELSE 0
  <2>1. excess \in Int
    BY <1>6
  <2> HIDE DEF excess
  <2> QED BY <1>3, <2>1, OrZero
<1> HIDE DEF excess, left
<1>8. fixed + X!InAll(kept) <= Limit => fixed + left + X!InAll(kept) <= Limit
  BY <1>3, <1>5, <1>6, <1>7
<1>9. fixed + told + X!InAll(cs) <= Limit => kept = cs /\ left = told
  <2>1. SUFFICES ASSUME fixed + told + X!InAll(cs) <= Limit PROVE kept = cs /\ left = told
    OBVIOUS
  <2>2. kept = cs
    BY <1>4, <2>1 DEF CutWell
  <2>3. X!InAll(kept) = X!InAll(cs)
    BY <2>2
  <2> QED BY <1>3, <1>5, <1>6, <1>7, <2>1, <2>2, <2>3
<1>10. \A k \in 1..2 : cs[k] > 0 => kept[k] > 0
  BY <1>4 DEF CutWell
<1>11. /\ more'.fixed + X!InAll(more'.columns) <= Limit =>
            more'.fixed + more'.answer + X!InAll(more'.columns) <= Limit
       /\ \A k \in 1..2 : more'.had[k] > 0 => more'.columns[k] > 0
       /\ more'.fixed + more'.told + X!InAll(more'.had) <= Limit =>
            more'.columns = more'.had /\ more'.answer = more'.told
  BY <1>2, <1>8, <1>9, <1>10
<1> QED BY <1>11 DEF X!FollowUpFits, X!InAll

-----------------------------------------------------------------------------
ContextKept == ContextTyped /\ X!RequestIsWhole /\ X!FollowUpFits

LEMMA ContextInit ==
  ASSUME X!Init
  PROVE  ContextKept
<1>1. budget \in Nat /\ messages = <<>> /\ assembled = None /\ more = None
  BY ServicesAssumption DEF X!Init
<1>2. earlier \in Seq(Nat)
  <2>1. PICK n \in 0..MaxTurns : earlier \in [1..n -> 1..2]
    BY DEF X!Init
  <2>2. n \in Nat
    BY ServicesAssumption
  <2>3. \A t \in 1..n : earlier[t] \in Nat
    BY <2>1
  <2>4. earlier = [t \in 1..n |-> earlier[t]]
    BY <2>1
  <2> QED BY <2>2, <2>3, <2>4, IsASeq
<1>3. messages \in Seq(MessageRecords) /\ Grouped
  BY <1>1 DEF Grouped
<1> QED BY <1>1, <1>2, <1>3 DEF ContextKept, ContextTyped, X!RequestIsWhole, X!FollowUpFits

LEMMA RespondStep ==
  ASSUME ContextTyped, X!Respond
  PROVE  ContextTyped'
<1>1. PICK n \in 0..2, size \in 1..2 :
        messages' = (messages \o <<X!Response(n, size)>>) \o [c \in 1..n |-> X!Result(Len(messages) + 1, size)]
  BY DEF X!Respond
<1> DEFINE N == Len(messages)
           F == messages \o <<X!Response(n, size)>>
           G == [c \in 1..n |-> X!Result(N + 1, size)]
           H == messages'
<1>2. N \in Nat /\ messages \in Seq(MessageRecords) /\ n \in Nat /\ size \in Nat
  BY MessagesAre DEF ContextTyped
<1>3. X!Response(n, size) \in MessageRecords /\ X!Result(N + 1, size) \in MessageRecords
  BY <1>2 DEF MessageRecords, X!Response, X!Result
<1>4. /\ F \in Seq(MessageRecords) /\ Len(F) = N + 1 /\ F[N + 1] = X!Response(n, size)
      /\ \A p \in 1..N : F[p] = messages[p]
  <2>1. F = Append(messages, X!Response(n, size))
    BY <1>2, <1>3, AppendIsConcat
  <2> QED BY <1>2, <1>3, <2>1, AppendProperties
<1>5. G \in Seq(MessageRecords) /\ Len(G) = n /\ \A c \in 1..n : G[c] = X!Result(N + 1, size)
  <2>1. G \in Seq(MessageRecords)
    BY <1>2, <1>3, IsASeq
  <2>2. DOMAIN G = 1..n
    OBVIOUS
  <2>3. Len(G) = n
    <3> HIDE DEF G
    <3> QED BY <1>2, <2>1, <2>2, LenProperties
  <2> QED BY <2>1, <2>3
<1>6. H = F \o G
  BY <1>1
<1> HIDE DEF F, G
<1>7. /\ H \in Seq(MessageRecords) /\ Len(H) = N + 1 + n
      /\ \A p \in 1..(N + 1) : H[p] = F[p]
      /\ \A c \in 1..n : H[N + 1 + c] = G[c]
  <2>1. /\ H \in Seq(MessageRecords) /\ Len(H) = Len(F) + Len(G)
        /\ \A p \in 1..(Len(F) + Len(G)) : H[p] = IF p <= Len(F) THEN F[p] ELSE G[p - Len(F)]
    BY <1>4, <1>5, <1>6, ConcatProperties
  <2>2. \A p \in 1..(N + 1) : H[p] = F[p]
    BY <1>2, <1>4, <1>5, <2>1
  <2>3. ASSUME NEW c \in 1..n PROVE H[N + 1 + c] = G[c]
    <3>1. N + 1 + c \in 1..(N + 1 + n) /\ ~(N + 1 + c <= N + 1) /\ N + 1 + c - (N + 1) = c
      BY <1>2
    <3> QED BY <1>4, <1>5, <2>1, <3>1
  <2> QED BY <1>4, <1>5, <2>1, <2>2, <2>3
<1>8. /\ \A p \in 1..N : H[p] = messages[p]
      /\ H[N + 1].role = "assistant" /\ H[N + 1].calls = n
      /\ \A c \in 1..n : H[N + 1 + c].role = "tool" /\ H[N + 1 + c].of = N + 1
  <2>1. X!Response(n, size).role = "assistant" /\ X!Response(n, size).calls = n
    BY DEF X!Response
  <2>2. X!Result(N + 1, size).role = "tool" /\ X!Result(N + 1, size).of = N + 1
    BY DEF X!Result
  <2>3. \A p \in 1..N : p \in 1..(N + 1)
    BY <1>2
  <2>4. N + 1 \in 1..(N + 1)
    BY <1>2
  <2> QED BY <1>4, <1>5, <1>7, <2>1, <2>2, <2>3, <2>4
<1> HIDE DEF N, H
<1>9. \A p \in 1..Len(H) : p \in 1..N \/ p = N + 1 \/ \E c \in 1..n : p = N + 1 + c
  <2>1. TAKE p \in 1..Len(H)
  <2>2. CASE p > N + 1
    <3>1. p - (N + 1) \in 1..n /\ p = N + 1 + (p - (N + 1))
      BY <1>2, <1>7, <2>2
    <3> QED BY <3>1
  <2> QED BY <1>2, <1>7, <2>2
<1>10. ASSUME NEW p \in 1..Len(H), H[p].role = "assistant", NEW j \in 1..H[p].calls
       PROVE  p + j \in 1..Len(H) /\ H[p + j].role = "tool" /\ H[p + j].of = p
  <2>1. CASE p \in 1..N
    <3>1. p + j \in 1..N /\ messages[p + j].role = "tool" /\ messages[p + j].of = p
      BY <1>8, <1>10, <2>1 DEF ContextTyped, Grouped, N
    <3>2. p + j \in 1..Len(H)
      BY <1>2, <1>7, <3>1
    <3> QED BY <1>8, <3>1, <3>2
  <2>2. CASE p = N + 1
    <3>1. j \in 1..n
      BY <1>8, <1>10, <2>2
    <3>2. N + 1 + j \in 1..Len(H)
      BY <1>2, <1>7, <3>1
    <3> QED BY <1>8, <2>2, <3>1, <3>2
  <2>3. CASE \E c \in 1..n : p = N + 1 + c
    BY <1>8, <1>10, <2>3
  <2> QED BY <1>9, <2>1, <2>2, <2>3
<1>11. ASSUME NEW p \in 1..Len(H), H[p].role = "tool"
       PROVE  /\ H[p].of \in 1..(p - 1) /\ H[H[p].of].role = "assistant"
              /\ p <= H[p].of + H[H[p].of].calls
  <2>1. CASE p \in 1..N
    <3>1. /\ messages[p].of \in 1..(p - 1) /\ messages[messages[p].of].role = "assistant"
          /\ p <= messages[p].of + messages[messages[p].of].calls
      BY <1>8, <1>11, <2>1 DEF ContextTyped, Grouped, N
    <3>2. PICK o \in 1..(p - 1) : o = messages[p].of
      BY <3>1
    <3>3. o \in 1..N
      BY <1>2, <2>1, <3>2
    <3> QED BY <1>8, <2>1, <3>1, <3>2, <3>3
  <2>2. CASE p = N + 1
    BY <1>8, <1>11, <2>2
  <2>3. ASSUME NEW c \in 1..n, p = N + 1 + c
        PROVE  /\ H[p].of \in 1..(p - 1) /\ H[H[p].of].role = "assistant"
               /\ p <= H[p].of + H[H[p].of].calls
    <3>1. H[p].of = N + 1 /\ H[N + 1].role = "assistant" /\ H[N + 1].calls = n
      BY <1>8, <2>3
    <3>2. N + 1 \in 1..(p - 1) /\ p <= N + 1 + n
      BY <1>2, <2>3
    <3> QED BY <3>1, <3>2
  <2> QED BY <1>9, <2>1, <2>2, <2>3
<1>12. Grouped'
  BY <1>10, <1>11 DEF Grouped, H
<1>13. budget' \in Nat /\ earlier' \in Seq(Nat)
  BY DEF X!Respond, ContextTyped
<1> QED BY <1>7, <1>12, <1>13 DEF ContextTyped, H

LEMMA AssembleStep ==
  ASSUME ContextTyped, X!Assemble
  PROVE  ContextTyped' /\ X!RequestIsWhole' /\ X!FollowUpFits'
<1> DEFINE r == assembled'
<1>1. /\ ~X!Selection.exceeded /\ r = X!Request(Held)
      /\ budget' = budget /\ messages' = messages /\ earlier' = earlier /\ more' = more /\ more = None
  BY DEF X!Assemble, Held, Chosen, Contents
<1>2. Arranged(Held, LastPosition, r)
  BY <1>1, ChosenAre, RequestIs
<1>3. AnswersTogether(r) /\ InTheirOrder(r) /\ HasLatest(r) /\ FillsBudget(r)
  BY <1>1, <1>2, AnswersStand, OrderStands, LatestStands, BudgetFilled
<1>4. /\ X!Everything' = X!Everything /\ X!Starts' = X!Starts
      /\ X!Positions("run")' = PlacesOf(r, "run") /\ X!Positions("turn")' = PlacesOf(r, "turn")
  BY <1>1 DEF X!Everything, X!Starts, X!Positions, PlacesOf
<1>5. X!Size' = X!Size /\ X!InRequest' = RunIn(r)
  BY <1>1, <1>4 DEF X!Size, X!InRequest, RunIn
<1>6. X!Cost' = CostOf(r)
  BY <1>5 DEF X!Cost, CostOf
<1>7. ASSUME NEW p PROVE X!GroupParts(p)' = X!GroupParts(p)
  BY <1>1, <1>4 DEF X!GroupParts, X!GroupAt
<1> HIDE DEF r
<1>8. \A k \in X!Positions("run")' :
        LET m == messages[r[k].index]
        IN  IF m.role = "tool" THEN m.of \in X!InRequest'
            ELSE \A j \in 1..m.calls : r[k + j] = X!Part("run", r[k].index + j)
  BY <1>3, <1>4, <1>5 DEF AnswersTogether
<1>9. /\ \A k, c \in X!Positions("run")' : k < c => r[k].index < r[c].index
      /\ \A k, c \in X!Positions("turn")' : k < c => r[k].index > r[c].index
  BY <1>3, <1>4 DEF InTheirOrder
<1>10. /\ {"system", "question", "data"} \subseteq {r[k].kind : k \in DOMAIN r}
       /\ messages # <<>> => Len(messages) \in X!InRequest'
       /\ \A p \in DOMAIN messages :
            messages[p].role = "tool" /\ (\A q \in DOMAIN messages : q > p => messages[q].role # "tool") => p \in X!InRequest'
  BY <1>3, <1>5 DEF HasLatest
<1>11. /\ X!Cost' + X!ToolsSize <= budget
       /\ \A t \in DOMAIN earlier :
            earlier[t] + X!Cost' + X!ToolsSize <= budget => \E k \in X!Positions("turn")' : r[k].index = t
  BY <1>3, <1>4, <1>6 DEF FillsBudget
<1>12. \A p \in X!Starts' :
         X!SumFunctionOnSet(X!Size', X!GroupParts(p)') + X!Cost' + X!ToolsSize <= budget => p \in X!InRequest'
  BY <1>3, <1>4, <1>5, <1>6, <1>7 DEF FillsBudget
<1>13. X!RequestIsWhole'
  BY <1>1, <1>8, <1>9, <1>10, <1>11, <1>12 DEF X!RequestIsWhole, X!ToolsSize, r
<1>14. ContextTyped'
  BY <1>1 DEF ContextTyped, Grouped
<1> QED BY <1>1, <1>13, <1>14 DEF X!FollowUpFits

LEMMA ContextStep ==
  ASSUME ContextKept, X!Next
  PROVE  ContextKept'
<1>0. ContextTyped
  BY DEF ContextKept
<1>1. ASSUME X!Respond PROVE ContextKept'
  <2>1. more' = None /\ assembled' = None
    BY <1>1 DEF X!Respond
  <2> QED BY <1>0, <1>1, <2>1, RespondStep DEF ContextKept, X!RequestIsWhole, X!FollowUpFits
<1>2. ASSUME X!Shorten PROVE ContextKept'
  <2>1. more' = None /\ assembled' = None /\ messages' = messages /\ earlier' = earlier
    BY <1>2 DEF X!Shorten
  <2>2. budget' \in Nat
    BY <1>0, <1>2 DEF X!Shorten, ContextTyped
  <2>3. ContextTyped'
    BY <1>0, <2>1, <2>2 DEF ContextTyped, Grouped
  <2> QED BY <2>1, <2>3 DEF ContextKept, X!RequestIsWhole, X!FollowUpFits
<1>3. ASSUME X!Assemble PROVE ContextKept'
  BY <1>0, <1>3, AssembleStep DEF ContextKept
<1>4. ASSUME X!FollowUp PROVE ContextKept'
  <2>1. earlier' = <<>> /\ assembled' = None /\ messages' = messages /\ budget' = budget
    BY <1>4 DEF X!FollowUp
  <2>2. ContextTyped'
    BY <1>0, <2>1 DEF ContextTyped, Grouped
  <2> QED BY <1>4, <2>1, <2>2, FollowUpStep DEF ContextKept, X!RequestIsWhole
<1> QED BY <1>1, <1>2, <1>3, <1>4 DEF X!Next

(* assembleContext: a request keeps every response with all of its results,  *)
(* in the order they came, holds the question, the data and the latest       *)
(* results, costs no more than the budget, and leaves out only what would    *)
(* not have fitted; buildFollowUpContext cuts no more than it must and no     *)
(* table's last column.  For any budgets, numbers and sizes of messages and  *)
(* turns, limit and columns.                                                 *)
THEOREM RequestStaysWhole == AllSpec => []RequestIsWhole
<1>1. AllInit => (part = "context" => ContextKept)
  BY ContextInit DEF AllInit
<1>2. (part = "context" => ContextKept) /\ [AllNext]_all => (part = "context" => ContextKept)'
  <2>1. ContextKept /\ UNCHANGED context => ContextKept'
    <3> SUFFICES ASSUME ContextKept, UNCHANGED context PROVE ContextKept'
      OBVIOUS
    <3>1. /\ budget' = budget /\ messages' = messages /\ earlier' = earlier
          /\ assembled' = assembled /\ more' = more
      BY DEF context
    <3>2. ContextTyped'
      BY <3>1 DEF ContextKept, ContextTyped, Grouped
    <3>3. X!Everything' = X!Everything /\ X!Starts' = X!Starts /\ \A kind : X!Positions(kind)' = X!Positions(kind)
      BY <3>1 DEF X!Everything, X!Starts, X!Positions
    <3>4. X!Size' = X!Size /\ X!InRequest' = X!InRequest
      BY <3>1, <3>3 DEF X!Size, X!InRequest
    <3>5. X!Cost' = X!Cost /\ \A p : X!GroupParts(p)' = X!GroupParts(p)
      BY <3>1, <3>3, <3>4 DEF X!Cost, X!GroupParts, X!GroupAt
    <3>6. X!RequestIsWhole'
      BY <3>1, <3>3, <3>4, <3>5 DEF ContextKept, X!RequestIsWhole
    <3>7. X!FollowUpFits'
      BY <3>1 DEF ContextKept, X!FollowUpFits
    <3> QED BY <3>2, <3>6, <3>7 DEF ContextKept
  <2> QED BY <2>1, PartStep, ContextStep
<1>3. (part = "context" => ContextKept) => RequestIsWhole
  BY DEF ContextKept, RequestIsWhole
<1> QED BY <1>1, <1>2, <1>3, PTL DEF AllSpec
=============================================================================
