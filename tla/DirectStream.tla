----------------------------- MODULE DirectStream -----------------------------
(***************************************************************************)
(* The direct state stream (host/src/direct_state.rs): a reader thread     *)
(* that follows a local producer of account frames, and the refresh thread *)
(* that serves banks from the latest frame (stockmesh_api.rs,              *)
(* refresh_superbank and refresh_direct_group_once).                       *)
(*                                                                         *)
(* A connection watches the keys that the banks had when it was opened.    *)
(* Its frames must follow each other; the stream is promoted after enough  *)
(* of them and loses everything when it ends.  The two threads share       *)
(* connected, promoted and latest, each read and written by itself.        *)
(*                                                                         *)
(* Simplifications.                                                        *)
(*  - The keys of the banks are known by the version of their layout.      *)
(*  - A frame is a bank that follows the one before it, or one of the      *)
(*    Faults.  "spoilt" stands for every frame that read_frame refuses.    *)
(*  - Ages are two: within max_age, or beyond it.                          *)
(*  - How a bank is published is BankPublication; here all banks together  *)
(*    are invalid, or were published from the stream or by RPC.            *)
(***************************************************************************)
EXTENDS Integers, Sequences

CONSTANTS
    Promotion,      \* promotion_frames
    MaxQueue,       \* bound: frames waiting in the socket
    MaxFaults,      \* bound: faults of the producer and of the market
    MaxLayout       \* bound: rotations of the banks' layouts

Faults == {"skipped", "overload", "gap", "spoilt"}

NoFrame == [watch |-> -1, fresh |-> FALSE]

StreamAssumption ==
    /\ Promotion \in Nat \ {0, 1}
    /\ MaxQueue \in Nat \ {0} /\ MaxFaults \in Nat /\ MaxLayout \in Nat

VARIABLES
    mode,           \* "shadow", "primary" or "required"
    bankKeys,       \* version of the banks' layouts
    banks,          \* "invalid", "direct" or "rpc"
    reader,         \* where the reader thread is
    asked,          \* the layout its connection watches
    streak,         \* frames of the connection that followed each other
    queue,          \* frames in the socket
    connected, promoted, latest,
    refresh,        \* where the refresh thread is
    wanted,         \* the layout of its cycle
    candidate,      \* the frame it found, or NoFrame
    faults

shared == <<connected, promoted, latest>>
stream == <<reader, asked, streak, queue>>
cycle == <<refresh, wanted, candidate>>
streamVars == <<mode, bankKeys, banks, stream, shared, cycle, faults>>

-----------------------------------------------------------------------------
(* The producer and the market.                                            *)

StreamOpen == reader \in {"asked", "watching", "reading"}

Send ==
    /\ StreamOpen /\ Len(queue) < MaxQueue
    /\ queue' = Append(queue, "bank")
    /\ UNCHANGED <<mode, bankKeys, banks, reader, asked, streak, shared, cycle, faults>>

SendFault(kind) ==
    /\ StreamOpen /\ Len(queue) < MaxQueue /\ faults < MaxFaults
    /\ queue' = Append(queue, kind)
    /\ faults' = faults + 1
    /\ UNCHANGED <<mode, bankKeys, banks, reader, asked, streak, shared, cycle>>

\* Nothing comes for max_age: the latest frame is stale.
Stall ==
    /\ latest.fresh /\ faults < MaxFaults
    /\ latest' = [latest EXCEPT !.fresh = FALSE]
    /\ faults' = faults + 1
    /\ UNCHANGED <<mode, bankKeys, banks, stream, connected, promoted, cycle>>

-----------------------------------------------------------------------------
(* The reader thread: DirectState::run.                                    *)

\* An attempt that succeeds: the keys are taken and requested ...
Connect ==
    /\ reader = "off"
    /\ asked' = bankKeys
    /\ reader' = "asked"
    /\ streak' = 0 /\ queue' = <<>>
    /\ UNCHANGED <<mode, bankKeys, banks, shared, cycle, faults>>

\* ... before the stream counts as connected.
Connected ==
    /\ reader = "asked"
    /\ connected' = TRUE
    /\ reader' = "watching"
    /\ UNCHANGED <<mode, bankKeys, banks, asked, streak, queue, promoted, latest, cycle, faults>>

\* The banks still have the keys that the connection watches.
WatchHeld == asked = bankKeys

CheckWatch ==
    /\ reader = "watching"
    /\ reader' = IF WatchHeld THEN "reading" ELSE "ended"
    /\ UNCHANGED <<mode, bankKeys, banks, asked, streak, queue, shared, cycle, faults>>

\* read_frame and the lineage check; the first frame of a connection has
\* nothing to follow.
Accepted(frame) == frame = "bank" \/ (frame = "skipped" /\ streak = 0)

StreakAfter == IF streak < Promotion THEN streak + 1 ELSE Promotion

ReadFrame ==
    /\ reader = "reading" /\ queue # <<>>
    /\ queue' = Tail(queue)
    /\ IF Accepted(Head(queue))
         THEN /\ latest' = [watch |-> asked, fresh |-> TRUE]
              /\ streak' = StreakAfter
              /\ promoted' = (promoted \/ StreakAfter >= Promotion)
              /\ reader' = "watching"
         ELSE /\ reader' = "ended"
              /\ UNCHANGED <<latest, streak, promoted>>
    /\ UNCHANGED <<mode, bankKeys, banks, asked, connected, cycle, faults>>

\* A read or the watch request times out, or the producer closes the socket.
StreamReadFails ==
    /\ reader \in {"asked", "reading"} /\ faults < MaxFaults
    /\ reader' = "ended"
    /\ faults' = faults + 1
    /\ UNCHANGED <<mode, bankKeys, banks, asked, streak, queue, shared, cycle>>

\* The connection ends in three writes.
Disconnect ==
    /\ reader = "ended"
    /\ connected' = FALSE
    /\ reader' = "disconnected"
    /\ UNCHANGED <<mode, bankKeys, banks, asked, streak, queue, promoted, latest, cycle, faults>>

Demote ==
    /\ reader = "disconnected"
    /\ promoted' = FALSE
    /\ reader' = "demoted"
    /\ UNCHANGED <<mode, bankKeys, banks, asked, streak, queue, connected, latest, cycle, faults>>

Forget ==
    /\ reader = "demoted"
    /\ latest' = NoFrame
    /\ reader' = "off"
    /\ queue' = <<>> /\ streak' = 0
    /\ UNCHANGED <<mode, bankKeys, banks, asked, connected, promoted, cycle, faults>>

-----------------------------------------------------------------------------
(* The refresh thread: direct_watch_keys, snapshot, and what it makes of   *)
(* the frame.                                                              *)

LoadConnected ==
    /\ refresh = "keys"
    /\ wanted' = bankKeys
    /\ candidate' = NoFrame
    /\ refresh' = IF connected THEN "connected" ELSE "use"
    /\ UNCHANGED <<mode, bankKeys, banks, stream, shared, faults>>

LoadPromoted ==
    /\ refresh = "connected"
    /\ refresh' = IF promoted THEN "promoted" ELSE "use"
    /\ UNCHANGED <<mode, bankKeys, banks, stream, shared, wanted, candidate, faults>>

\* mutant of Servable: a frame of another layout will do.
ServableAny(frame) == frame # NoFrame /\ frame.fresh

Servable(frame) == frame # NoFrame /\ frame.watch = wanted /\ frame.fresh

LoadLatest ==
    /\ refresh = "promoted"
    /\ candidate' = IF Servable(latest) THEN latest ELSE NoFrame
    /\ refresh' = "use"
    /\ UNCHANGED <<mode, bankKeys, banks, stream, shared, wanted, faults>>

\* Every group publishes from the frame, and no bank is due for a rotation.
ServeDirect ==
    /\ refresh = "use" /\ mode # "shadow" /\ candidate # NoFrame
    /\ banks' = "direct"
    /\ refresh' = "keys"
    /\ UNCHANGED <<mode, bankKeys, stream, shared, wanted, candidate, faults>>

\* The frame is not there, or a bank cannot be published from it.
NotServed == candidate = NoFrame \/ faults < MaxFaults

\* Without its stream a required reader has no banks.
Unavailable == "invalid"

RefuseDirect ==
    /\ refresh = "use" /\ mode = "required" /\ NotServed
    /\ banks' = Unavailable
    /\ faults' = IF candidate = NoFrame THEN faults ELSE faults + 1
    /\ refresh' = "keys"
    /\ UNCHANGED <<mode, bankKeys, stream, shared, wanted, candidate>>

FallBack ==
    /\ refresh = "use"
    /\ mode = "shadow" \/ (mode = "primary" /\ NotServed)
    /\ faults' = IF mode = "shadow" \/ candidate = NoFrame THEN faults ELSE faults + 1
    /\ refresh' = "rpc"
    /\ UNCHANGED <<mode, bankKeys, banks, stream, shared, wanted, candidate>>

\* The cycle reads by RPC, and may rotate a layout; without a client every bank
\* is invalid.
ReadRpc ==
    /\ refresh = "rpc"
    /\ \/ banks' = "rpc" /\ bankKeys' \in {bankKeys} \cup (IF bankKeys < MaxLayout THEN {bankKeys + 1} ELSE {})
       \/ banks' = "invalid" /\ UNCHANGED bankKeys
    /\ refresh' = "keys"
    /\ UNCHANGED <<mode, stream, shared, wanted, candidate, faults>>

StreamInit ==
    /\ mode \in {"shadow", "primary", "required"}
    /\ bankKeys = 0 /\ banks = "invalid"
    /\ reader = "off" /\ asked = 0 /\ streak = 0 /\ queue = <<>>
    /\ connected = FALSE /\ promoted = FALSE /\ latest = NoFrame
    /\ refresh = "keys" /\ wanted = 0 /\ candidate = NoFrame
    /\ faults = 0

StreamNext ==
    \/ Send \/ Stall \/ StreamReadFails
    \/ \E kind \in Faults : SendFault(kind)
    \/ Connect \/ Connected \/ CheckWatch \/ ReadFrame \/ Disconnect \/ Demote \/ Forget
    \/ LoadConnected \/ LoadPromoted \/ LoadLatest
    \/ ServeDirect \/ RefuseDirect \/ FallBack \/ ReadRpc

StreamSpec == StreamInit /\ [][StreamNext]_streamVars

\* Both threads run; what the producer does is not promised, and an attempt to
\* connect to it may fail for ever.
StreamFairness ==
    /\ WF_streamVars(Connected) /\ WF_streamVars(CheckWatch) /\ WF_streamVars(ReadFrame)
    /\ WF_streamVars(Disconnect) /\ WF_streamVars(Demote) /\ WF_streamVars(Forget)
    /\ WF_streamVars(LoadConnected) /\ WF_streamVars(LoadPromoted) /\ WF_streamVars(LoadLatest)
    /\ WF_streamVars(ServeDirect \/ RefuseDirect \/ FallBack) /\ WF_streamVars(ReadRpc)

FairStream == StreamSpec /\ StreamFairness

-----------------------------------------------------------------------------
(* Properties.                                                             *)

\* A frame that banks are published from holds the accounts that their layouts
\* have then, whatever rotated since its connection was opened.
\* (direct_state.rs:234 snapshot, stockmesh_api.rs:5358 refresh_direct_group_once)
ServedOnWatch == candidate # NoFrame /\ refresh = "use" => candidate.watch = bankKeys

\* Whatever went wrong before, a producer that goes on sending is served from
\* again: a connection with old keys, a lost frame or a stall ends by itself.
\* (direct_state.rs "direct watch set rotated")
DirectRecovers == mode = "primary" /\ []<><<Send>>_streamVars => []<><<ServeDirect>>_streamVars

\* A required reader whose stream stays away ends with no bank to quote from.
\* (stockmesh_api.rs "record_direct_unavailable")
DeadStreamFailsClosed ==
    mode = "required" /\ <>[]~connected => <>[](banks = "invalid")
=============================================================================
