------------------------------ MODULE Accounts ------------------------------
(***************************************************************************)
(* The secrets of one account: its password, the links mailed to reset it,  *)
(* and the sessions (JWTs), which carry a hash of the password's hash.      *)
(*                                                                         *)
(* Passwords are numbered: every change writes a new salted hash, so no two *)
(* changes leave the same credentialsVersion even for the same password.    *)
(* A change is a transaction that locks the user's row FOR UPDATE.  An      *)
(* insert of a link needs a share lock of that row for its foreign key and  *)
(* waits for it.  Definitions marked "Faulty" are plausible bugs in the     *)
(* definition after them and not part of the specification.                *)
(***************************************************************************)
EXTENDS Naturals, Sequences, FiniteSets

CONSTANTS
  Callers,     \* requests to change or reset the password, to log in, or to mail a link
  None,
  MaxChanges,  \* bound: changes of the password
  MaxLinks     \* bound: links mailed

VARIABLES
  secret,      \* the password and hash in force, by number
  links,       \* password_reset_token: "fresh", "used" or "expired"
  issued,      \* history variable: the secret in force when a link was inserted
  sessions,    \* credentialsVersion of every JWT handed out
  rowLock,     \* who has the user's row FOR UPDATE
  acts,        \* what a caller is doing and what it has read
  proofs       \* history variable: the secret each change was justified by

vars == <<secret, links, issued, sessions, rowLock, acts, proofs>>

Links == DOMAIN links

Init ==
  /\ secret = 0 /\ links = <<>> /\ issued = <<>>
  /\ sessions = {0}   \* register
  /\ rowLock = None /\ proofs = <<>>
  /\ acts = [x \in Callers |-> None]

Starts(x, what, knows) == acts' = [acts EXCEPT ![x] = [what |-> what, at |-> "asked", knows |-> knows, marks |-> {}]]

Doing(x, what, at) == acts[x] # None /\ acts[x].what \in what /\ acts[x].at = at

Ends(x) == acts' = [acts EXCEPT ![x] = None]

-----------------------------------------------------------------------------
(* login and requestReset *)

(* login reads the row; bcrypt.compare takes its time. *)
Login(x) ==
  /\ acts[x] = None
  /\ Starts(x, "login", secret)
  /\ UNCHANGED <<secret, links, issued, sessions, rowLock, proofs>>

(* The JWT is made of the row as it was read. *)
Sign(x) ==
  /\ Doing(x, {"login"}, "asked")
  /\ sessions' = sessions \cup {acts[x].knows}
  /\ Ends(x)
  /\ UNCHANGED <<secret, links, issued, rowLock, proofs>>

(* Faulty: nobody locks the row. *)
RowUnlocked == TRUE

RowFree == rowLock = None

(* requestReset: one INSERT. *)
MailLink ==
  /\ Len(links) < MaxLinks /\ RowFree
  /\ links' = Append(links, "fresh")
  /\ issued' = Append(issued, secret)
  /\ UNCHANGED <<secret, sessions, rowLock, acts, proofs>>

Expire(l) ==
  /\ links[l] = "fresh"
  /\ links' = [links EXCEPT ![l] = "expired"]
  /\ UNCHANGED <<secret, issued, sessions, rowLock, acts, proofs>>

-----------------------------------------------------------------------------
(* updatePassword and resetPassword *)

(* Only a session of the secret in force gets to updatePassword (findById); *)
(* the current password may be any the caller ever knew.                   *)
AskChange(x, password) ==
  /\ acts[x] = None /\ secret \in sessions /\ password \in 0..secret
  /\ Starts(x, "change", password)
  /\ UNCHANGED <<secret, links, issued, sessions, rowLock, proofs>>

(* The row of a link tells its owner, whatever its state. *)
AskReset(x, l) ==
  /\ acts[x] = None
  /\ Starts(x, "reset", l)
  /\ UNCHANGED <<secret, links, issued, sessions, rowLock, proofs>>

LockRow(x) ==
  /\ Doing(x, {"change", "reset"}, "asked") /\ RowFree
  /\ rowLock' = x
  /\ acts' = [acts EXCEPT ![x].at = "locked"]
  /\ UNCHANGED <<secret, links, issued, sessions, proofs>>

(* What the check under the lock finds. *)
Justified(x) ==
  IF acts[x].what = "change" THEN acts[x].knows = secret ELSE links[acts[x].knows] = "fresh"

(* The new hash is written, then the links that are visible are marked. *)
Write(x) ==
  /\ Doing(x, {"change", "reset"}, "locked") /\ Justified(x) /\ secret < MaxChanges
  /\ acts' = [acts EXCEPT ![x] = [@ EXCEPT !.at = "written", !.marks = {l \in Links : links[l] # "used"}]]
  /\ UNCHANGED <<secret, links, issued, sessions, rowLock, proofs>>

Unlocked(x) == IF rowLock = x THEN None ELSE rowLock

Proof(act) == IF act.what = "change" THEN act.knows ELSE issued[act.knows]

Commit(x) ==
  /\ Doing(x, {"change", "reset"}, "written")
  /\ secret' = secret + 1
  /\ links' = [l \in Links |-> IF l \in acts[x].marks THEN "used" ELSE links[l]]
  /\ proofs' = Append(proofs, Proof(acts[x]))
  /\ rowLock' = Unlocked(x)
  /\ Ends(x)
  /\ UNCHANGED <<issued, sessions>>

(* 400 or 401, a wrong password at login, or a lost connection: rollback. *)
Fail(x) ==
  /\ acts[x] # None
  /\ rowLock' = Unlocked(x)
  /\ Ends(x)
  /\ UNCHANGED <<secret, links, issued, sessions, proofs>>

Next ==
  \/ MailLink
  \/ \E l \in Links : Expire(l)
  \/ \E x \in Callers :
       \/ Login(x) \/ Sign(x) \/ LockRow(x) \/ Write(x) \/ Commit(x) \/ Fail(x)
       \/ \E p \in 0..MaxChanges : AskChange(x, p)
       \/ \E l \in Links : AskReset(x, l)

Spec == Init /\ [][Next]_vars

-----------------------------------------------------------------------------
(* Properties *)

(* A change of the password kills every older secret at once: each change    *)
(* was justified by the password, or a link mailed under the password, that *)
(* it replaced, so of two that overlap one fails; and no link that was      *)
(* mailed under an older password can be used any more.                    *)
OldSecretsAreDead ==
  /\ \A n \in DOMAIN proofs : proofs[n] = n - 1
  /\ \A l \in Links : links[l] = "fresh" => issued[l] = secret
=============================================================================
