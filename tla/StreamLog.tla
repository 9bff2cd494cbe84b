------------------------------ MODULE StreamLog ------------------------------
(***************************************************************************)
(* What EventStoreService promises its callers, without transactions,      *)
(* positions or races: a set of streams, each a contiguous run of          *)
(* versions 1, 2, 3, ...; an append either extends one stream by a whole   *)
(* batch in one step or changes nothing; a batch is acknowledged only once *)
(* it is recorded exactly where the caller asked for it.                   *)
(***************************************************************************)
EXTENDS Integers, Sequences

CONSTANTS
  Stream,      \* stream ids
  Batch,       \* the lists of event ids callers append
  MaxVersion   \* bound: the largest expectedVersion a caller passes

VARIABLES
  entries,  \* the recorded events, each [stream, version, id]
  acked     \* the append calls answered with success

logVars == <<entries, acked>>

\* The batch ids appended to stream s after version expected.
EntriesOf(s, expected, ids) ==
  {[stream |-> s, version |-> expected + i, id |-> ids[i]] : i \in DOMAIN ids}

\* Stream s ends at version n.
EndsAt(s, n) ==
  /\ \A e \in entries : e.stream = s => e.version <= n
  /\ n = 0 \/ \E e \in entries : e.stream = s /\ e.version = n

Init ==
  /\ entries = {}
  /\ acked = {}

\* The whole batch is recorded after the present end of the stream; its ids
\* are new.  The caller may or may not be told.
Record(s, expected, ids) ==
  /\ EndsAt(s, expected)
  /\ \A e \in entries, i \in DOMAIN ids : e.id # ids[i]
  /\ entries' = entries \union EntriesOf(s, expected, ids)
  /\ \/ UNCHANGED acked
     \/ acked' = acked \union {[stream |-> s, expected |-> expected, ids |-> ids]}

\* A call whose batch is already recorded where it asked for is acknowledged
\* again: the idempotent retry.
Acknowledge(s, expected, ids) ==
  /\ EntriesOf(s, expected, ids) \subseteq entries
  /\ acked' = acked \union {[stream |-> s, expected |-> expected, ids |-> ids]}
  /\ UNCHANGED entries

Next ==
  \E s \in Stream, expected \in 0..MaxVersion, ids \in Batch :
    Record(s, expected, ids) \/ Acknowledge(s, expected, ids)

Spec == Init /\ [][Next]_logVars
==============================================================================
