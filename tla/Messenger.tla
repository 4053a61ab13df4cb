----------------------------- MODULE Messenger ------------------------------
(***************************************************************************)
(* The messenger of two users (internal/clientruntime/social.go,           *)
(* internal/social): adding a contact, sending a message, and the store    *)
(* that keeps them in memory and saves all of it after every change.  A    *)
(* change is made in memory first and stays there when the save fails.     *)
(*                                                                         *)
(* Every message has an ID of its own (a nonce enters it), so a message    *)
(* that is sent again is another message.  Signatures verify.  Whether a   *)
(* user's node runs and serves the messenger is the composing module's.    *)
(***************************************************************************)
EXTENDS Naturals, FiniteSets

CONSTANTS Users,      \* the two users
          Messages,   \* messages
          From,       \* From[m]: who sends m
          Created,    \* Created[m]: CreatedUnix, by the sender's clock
          HistoryCap, \* messages kept per contact (5000)
          MaxFaults   \* bound: failed saves, broken calls and crashes

ASSUME UsersAssumption == IsFiniteSet(Users) /\ Cardinality(Users) = 2
ASSUME FromAssumption == From \in [Messages -> Users]
ASSUME CreatedAssumption ==
  Created \in [Messages -> Nat] /\ \A m, n \in Messages : Created[m] = Created[n] => m = n
ASSUME BoundsAssumption == HistoryCap \in Nat \ {0} /\ MaxFaults \in Nat

VARIABLES
  mem,     \* mem[u]: Store.state: the contact and the messages with it
  file,    \* file[u]: social.json
  call,    \* call[m]: how far SendMessage has come with m
  nFaults  \* bound: faults so far

msgVars == <<mem, file, call, nFaults>>

peer(u) == CHOOSE v \in Users : v # u

EmptyState == [contact |-> "unknown", msgs |-> {}]

MessengerInit ==
  /\ mem = [u \in Users |-> EmptyState] /\ file = mem
  /\ call = [m \in Messages |-> "new"] /\ nFaults = 0

Fault == nFaults < MaxFaults /\ nFaults' = nFaults + 1

SetCall(m, c) == call' = [call EXCEPT ![m] = c]

-----------------------------------------------------------------------------
(* The store: the change in memory, and the save of the whole state.        *)

(* PutMessage keeps the newest HistoryCap messages, sorted by CreatedUnix.  *)
PutMessage(s, m) ==
  LET all == s.msgs \cup {m} IN
  [s EXCEPT !.msgs = {n \in all : Cardinality({k \in all : Created[k] > Created[n]}) < HistoryCap}]

(* PutContact replaces what was known of the contact, the alias included.   *)
PutContact(s, c) == [s EXCEPT !.contact = c]

saveLocked(u, s) ==
  /\ mem' = [mem EXCEPT ![u] = s]
  /\ file' = [file EXCEPT ![u] = s]
  /\ UNCHANGED nFaults

saveFails(u, s) ==
  /\ Fault
  /\ mem' = [mem EXCEPT ![u] = s]
  /\ UNCHANGED file

-----------------------------------------------------------------------------
(* fetchRemoteProfile and PutContact with the alias the user chose.         *)
AddContact(u) ==
  /\ mem[u].contact # "named"
  /\ LET s == PutContact(mem[u], "named") IN saveLocked(u, s) \/ saveFails(u, s)
  /\ UNCHANGED call

(* SendMessage up to the request: the contact must be known.                *)
SendMessage(m) ==
  /\ call[m] = "new" /\ mem[From[m]].contact # "unknown"
  /\ SetCall(m, "request")
  /\ UNCHANGED <<mem, file, nFaults>>

(* Mutant of handleSocial: the error of PutMessage is not reported.         *)
handleSocialOK(m) ==
  LET u == peer(From[m])
      s == PutMessage(PutContact(mem[u], "known"), m)
  IN  /\ call[m] = "request"
      /\ saveLocked(u, s) \/ saveFails(u, s)
      /\ SetCall(m, "ok")

(* handleSocial "message": PutContact, whose error is ignored, and          *)
(* PutMessage, whose error is the answer.                                   *)
handleSocial(m) ==
  LET u == peer(From[m])
      c == PutContact(mem[u], "known")
      s == PutMessage(c, m)
  IN  /\ call[m] = "request"
      /\ \/ saveLocked(u, s) /\ SetCall(m, "ok")
         \/ /\ Fault /\ mem' = [mem EXCEPT ![u] = s]
            /\ file' \in {file, [file EXCEPT ![u] = c]}
            /\ SetCall(m, "failed")

(* SendMessage after the answer: the sender's own history.                  *)
Sent(m) ==
  LET s == PutMessage(mem[From[m]], m) IN
  /\ call[m] = "ok"
  /\ \/ saveLocked(From[m], s) /\ SetCall(m, "done")
     \/ saveFails(From[m], s) /\ SetCall(m, "failed")

(* The stream breaks, or 20 seconds pass.                                   *)
Broken(m) ==
  /\ call[m] \in {"request", "ok"} /\ SetCall(m, "failed")
  /\ UNCHANGED <<mem, file>>

(* The process ends and OpenStore reads the file; its calls break.          *)
OpenStore(u) ==
  /\ Fault
  /\ mem' = [mem EXCEPT ![u] = file[u]]
  /\ call' = [m \in Messages |-> IF call[m] \in {"request", "ok"} THEN "failed" ELSE call[m]]
  /\ UNCHANGED file

-----------------------------------------------------------------------------
StoreStates == [contact : {"unknown", "known", "named"}, msgs : SUBSET Messages]

MessengerTypeOK ==
  /\ mem \in [Users -> StoreStates] /\ file \in [Users -> StoreStates]
  /\ call \in [Messages -> {"new", "request", "ok", "done", "failed"}]
  /\ nFaults \in 0 .. MaxFaults

(* A message the sender shows as sent is saved at the recipient, even after *)
(* crashes of either, unless the recipient's history was full of newer ones.*)
SentIsKept ==
  \A m \in Messages :
     LET kept == file[peer(From[m])].msgs IN
     m \in mem[From[m]].msgs /\ call[m] # "new" =>
        \/ m \in kept
        \/ Cardinality(kept) = HistoryCap /\ \A n \in kept : Created[n] > Created[m]
=============================================================================
