------------------------------ MODULE Mailbox -------------------------------
(***************************************************************************)
(* The offline mailbox of one recipient (pkg/knotmailbox): senders put     *)
(* sealed envelopes into a directory of files, the recipient fetches the   *)
(* oldest ones, opens them and acknowledges those it opened.  Every call   *)
(* is one request on a connection of its own.  The server may crash in the *)
(* middle of a put; the store's mutex makes its operations atomic.         *)
(*                                                                         *)
(* Every Send seals a new envelope, so its MessageID is never used twice.  *)
(* CreatedUnix comes from the sender's clock, which may be off.            *)
(***************************************************************************)
EXTENDS Integers, FiniteSets, FiniteSetsExt, Functions

CONSTANTS Envelopes,       \* envelopes, one per call of Send
          Opens,           \* those the recipient can open; any sender may put others
          SizeOf,          \* SizeOf[e], in units of a frame
          Skews,           \* how far a sender's clock may be off
          TTL, MaxPerRecipient,
          Limit,           \* most envelopes per fetch (256)
          MaxFrame,        \* most units per answer (4 MiB)
          MaxTime,         \* bound: clock ticks
          MaxFaults        \* bound: crashes, failed writes, broken and refused calls

ASSUME EnvelopesAssumption == Opens \subseteq Envelopes /\ SizeOf \in [Envelopes -> Nat \ {0}]
ASSUME LimitAssumption == {TTL, MaxPerRecipient, Limit, MaxFrame} \subseteq Nat \ {0}
ASSUME ClockAssumption == Skews \subseteq Int /\ MaxTime \in Nat /\ MaxFaults \in Nat

VARIABLES
  files,      \* the recipient's directory
  up,         \* the server runs
  now,        \* the server's clock
  out,        \* out[e]: the sender's call, "new", "put", "ok" or "error"
  created,    \* created[e]: CreatedUnix
  rpc,        \* the recipient's call: "idle", "fetch", "opened" or "ack"
  box,        \* IDs of the envelopes the recipient opened
  delivered,  \* history: delivered[e], how often the recipient got e
  leftover,   \* history: envelopes of which a crash left a temporary copy
  acked,      \* history: envelopes deleted by an acknowledgement
  unsure,     \* history: envelopes whose acknowledgement failed
  nFaults     \* bound: faults so far

store == <<files, leftover, acked>>
client == <<rpc, box, delivered, unsure>>
vars == <<store, up, now, out, created, client, nFaults>>

(* The file <MessageID>.json, and a temporary .message-* file that a crash  *)
(* left behind, with all of the envelope or a part of it.                   *)
Final(e) == [id |-> e, temp |-> FALSE, whole |-> TRUE]
Temps(e) == {[id |-> e, temp |-> TRUE, whole |-> w] : w \in BOOLEAN}

Init ==
  /\ files = {} /\ leftover = {} /\ acked = {} /\ up = TRUE /\ now = 0
  /\ out = [e \in Envelopes |-> "new"] /\ created = [e \in Envelopes |-> 0]
  /\ rpc = "idle" /\ box = {} /\ unsure = {}
  /\ delivered = [e \in Envelopes |-> 0] /\ nFaults = 0

Fault == nFaults < MaxFaults /\ nFaults' = nFaults + 1

-----------------------------------------------------------------------------
(* The store.                                                               *)

(* Mutant of expired: one second early.                                     *)
expiredEarly(e) == created[e] <= now - TTL

expired(e) == created[e] < now - TTL

(* What a put or a listing leaves: an expired file goes if it can be read.  *)
unexpired == {f \in files : ~(f.whole /\ expired(f.id))}

(* A put of what is there already needs no room; as every Send seals a new   *)
(* envelope, no put meets its own.                                          *)
room(e) == Final(e) \in unexpired \/ Cardinality(unexpired) < MaxPerRecipient

(* Put: no room, success, or a failure of the write or of the answer.       *)
Put(e) ==
  /\ up /\ out[e] = "put"
  /\ \/ /\ room(e) /\ files' = unexpired \cup {Final(e)}
        /\ out' = [out EXCEPT ![e] = "ok"] /\ UNCHANGED nFaults
     \/ /\ ~room(e) /\ files' = unexpired
        /\ out' = [out EXCEPT ![e] = "error"] /\ UNCHANGED nFaults
     \/ /\ room(e) /\ Fault /\ files' \in {unexpired, unexpired \cup {Final(e)}}
        /\ out' = [out EXCEPT ![e] = "error"]
  /\ UNCHANGED <<up, now, created, client, leftover, acked>>

(* The oldest first; sort.Slice leaves the order of equals open.            *)
List ==
  LET readable == {f \in unexpired : f.whole}
      n == IF Cardinality(readable) < Limit THEN Cardinality(readable) ELSE Limit
  IN  {S \in kSubset(n, readable) :
         \A f \in S, g \in readable \ S : created[f.id] <= created[g.id]}

(* Delete removes by name: a temporary file keeps its copy.                 *)
Delete(ids) == {Final(e) : e \in ids}

-----------------------------------------------------------------------------
(* The senders.                                                             *)

Seal(e) ==
  /\ out[e] = "new"
  /\ \E s \in Skews : created' = [created EXCEPT ![e] = now + s]
  /\ out' = [out EXCEPT ![e] = IF up THEN "put" ELSE "error"]
  /\ UNCHANGED <<store, up, now, client, nFaults>>

(* The connection breaks before the server has the request.                 *)
SendFails(e) ==
  /\ Fault /\ out[e] = "put"
  /\ out' = [out EXCEPT ![e] = "error"]
  /\ UNCHANGED <<store, up, now, created, client>>

-----------------------------------------------------------------------------
(* The recipient.                                                           *)

Fetch ==
  /\ rpc = "idle" /\ up /\ rpc' = "fetch"
  /\ UNCHANGED <<store, up, now, out, created, box, delivered, unsure, nFaults>>

(* Mutant of Opened: one envelope that cannot be opened fails the fetch.    *)
OpenedAll(S) == IF {f.id : f \in S} \subseteq Opens THEN {f.id : f \in S} ELSE {}

Opened(S) == {f.id : f \in S} \cap Opens

(* A frame has at most MaxFrame units.                                      *)
writeFrame(S) == SumFunctionOnSet([f \in S |-> SizeOf[f.id]], S) <= MaxFrame

(* The server lists; an answer that does not fit a frame is not written and *)
(* the call fails.  The client skips what it cannot open, and acknowledges  *)
(* nothing if that leaves nothing.                                          *)
Fetched ==
  /\ up /\ rpc = "fetch"
  /\ files' = unexpired
  /\ \E S \in List :
       LET opened == Opened(S) IN
       IF writeFrame(S) /\ opened # {}
         THEN /\ rpc' = "opened" /\ box' = opened
              /\ delivered' = [e \in Envelopes |->
                                 IF e \in opened /\ delivered[e] < 2 THEN delivered[e] + 1
                                                                     ELSE delivered[e]]
         ELSE rpc' = "idle" /\ UNCHANGED <<box, delivered>>
  /\ UNCHANGED <<leftover, acked, up, now, out, created, unsure, nFaults>>

Ack ==
  /\ rpc = "opened"
  /\ IF up THEN rpc' = "ack" /\ UNCHANGED <<box, unsure>>
           ELSE rpc' = "idle" /\ box' = {} /\ unsure' = unsure \cup box
  /\ UNCHANGED <<store, up, now, out, created, delivered, nFaults>>

Acked ==
  /\ up /\ rpc = "ack"
  /\ files' = files \ Delete(box) /\ acked' = acked \cup box
  /\ rpc' = "idle" /\ box' = {}
  /\ UNCHANGED <<leftover, up, now, out, created, delivered, unsure, nFaults>>

(* A broken call, a request the server refuses because the recipient's clock *)
(* is more than 180 s away from its own, or a recipient that stops before it *)
(* acknowledges.                                                            *)
CallFails ==
  /\ rpc # "idle" /\ Fault
  /\ rpc' = "idle" /\ box' = {} /\ unsure' = unsure \cup box
  /\ UNCHANGED <<store, up, now, out, created, delivered>>

-----------------------------------------------------------------------------
(* The server's crash, in a put or between two requests: every connection   *)
(* is lost.                                                                 *)
Crashes ==
  /\ Fault /\ up /\ up' = FALSE
  /\ out' = [e \in Envelopes |-> IF out[e] = "put" THEN "error" ELSE out[e]]
  /\ rpc' = (IF rpc = "opened" THEN rpc ELSE "idle")
  /\ box' = (IF rpc = "opened" THEN box ELSE {})
  /\ unsure' = (IF rpc = "ack" THEN unsure \cup box ELSE unsure)

Crash == Crashes /\ UNCHANGED <<store, now, created, delivered>>

CrashInPut(e) ==
  /\ out[e] = "put" /\ Final(e) \notin unexpired /\ room(e)
  /\ \/ \E f \in Temps(e) : files' = unexpired \cup {f} /\ leftover' = leftover \cup {e}
     \/ files' = unexpired \cup {Final(e)} /\ UNCHANGED leftover
  /\ Crashes
  /\ UNCHANGED <<now, created, delivered, acked>>

Restart == ~up /\ up' = TRUE /\ UNCHANGED <<store, now, out, created, client, nFaults>>

Tick == now < MaxTime /\ now' = now + 1 /\ UNCHANGED <<store, up, out, created, client, nFaults>>

-----------------------------------------------------------------------------
Next ==
  \/ \E e \in Envelopes : Seal(e) \/ Put(e) \/ SendFails(e) \/ CrashInPut(e)
  \/ Fetch \/ Fetched \/ Ack \/ Acked \/ CallFails
  \/ Crash \/ Restart \/ Tick

(* The server is restarted and serves; the recipient keeps fetching.        *)
Fairness ==
  /\ WF_vars(Restart) /\ WF_vars(Fetch) /\ WF_vars(Fetched)
  /\ WF_vars(Ack) /\ WF_vars(Acked)

Spec == Init /\ [][Next]_vars /\ Fairness

-----------------------------------------------------------------------------
TypeOK ==
  /\ files \subseteq UNION {{Final(e)} \cup Temps(e) : e \in Envelopes}
  /\ leftover \cup acked \cup box \cup unsure \subseteq Envelopes
  /\ up \in BOOLEAN /\ now \in 0 .. MaxTime /\ created \in [Envelopes -> Int]
  /\ out \in [Envelopes -> {"new", "put", "ok", "error"}]
  /\ rpc \in {"idle", "fetch", "opened", "ack"}
  /\ delivered \in [Envelopes -> 0 .. 2] /\ nFaults \in 0 .. MaxFaults

(* An envelope whose sender was told "ok" stays until the recipient has     *)
(* acknowledged it or its time to live has passed: no crash, capacity limit *)
(* or failed acknowledgement takes it away.                                 *)
Kept ==
  \A e \in Envelopes : out[e] = "ok" =>
     \/ Final(e) \in files
     \/ e \in acked /\ delivered[e] > 0
     \/ now - created[e] > TTL

(* The directory never holds more files than the recipient may have, what   *)
(* crashes left behind included.                                            *)
Bounded == Cardinality(files) <= MaxPerRecipient

(* The recipient gets an envelope twice only if its acknowledgement failed  *)
(* or a crash left a second copy of it that no acknowledgement removes.     *)
DeliveredOnce ==
  \A e \in Envelopes : delivered[e] > 1 => e \in unsure \cup leftover

(* The safety of the mailbox: types, accepted envelopes are kept, the       *)
(* directory is bounded, repeated delivery has one of its two reasons.      *)
StoreSound == TypeOK /\ Kept /\ Bounded /\ DeliveredOnce

(* What holds an envelope back until others expire: the oldest of the       *)
(* mailbox do not fit one answer, or are as many as an answer may have and  *)
(* of those none can be opened or, being leftovers, removed.                *)
Blocked ==
  \E S \in List :
     \/ ~writeFrame(S)
     \/ Cardinality(S) = Limit /\ \A f \in S : f.id \notin Opens \/ f.temp

(* An envelope that was accepted reaches the recipient, unless it expires   *)
(* or the mailbox is blocked.                                               *)
Delivered ==
  \A e \in Opens : (out[e] = "ok") ~> (delivered[e] > 0 \/ expired(e) \/ Blocked)
=============================================================================
