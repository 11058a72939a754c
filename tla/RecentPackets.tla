---------------------------- MODULE RecentPackets ----------------------------
(***************************************************************************)
(* What the client's repair cache promises, without its two structures: a  *)
(* log of the latest packets in the order they were sent.  Storing a       *)
(* packet appends to the log, which keeps MaxPackets of them; packets      *)
(* older than Ttl leave it from the front, sooner or later; a request is   *)
(* answered from a packet of the log that is younger than Ttl, or not at   *)
(* all.                                                                    *)
(***************************************************************************)
EXTENDS Integers, Sequences

CONSTANTS
  MaxMediaSequence,  \* sequences are 0..MaxMediaSequence
  MaxFragments,      \* a packet is cut into at most this many fragments
  Ttl,               \* --repair-cache-ms, in ticks
  MaxPackets,        \* --repair-cache-packets
  Requests           \* what the server may ask: [sequence, missing]

VARIABLES
  log,    \* packets held, oldest first: [sequence, fragments, age]
  answer  \* given in the last step: [sequence, fragments, sent, age]

NoAnswer == [sequence |-> 0, fragments |-> 0, sent |-> {}, age |-> 0]

Init == log = << >> /\ answer = NoAnswer

(* What may be left of the log once old packets have gone. *)
Remains ==
  {SubSeq(log, k + 1, Len(log)) :
     k \in {j \in 0..Len(log) : \A i \in 1..j : log[i].age >= Ttl}}

Latest(s) == IF Len(s) > MaxPackets THEN Tail(s) ELSE s

Entry(s, n) == [sequence |-> s, fragments |-> n, age |-> 0]

Sequences == 0..MaxMediaSequence

(* A packet of n fragments is stored; no packet of the log has its         *)
(* sequence.                                                               *)
Store(s, n) ==
  /\ \E rest \in Remains :
       /\ \A i \in DOMAIN rest : rest[i].sequence # s
       /\ log' = Latest(Append(rest, Entry(s, n)))
  /\ answer' = NoAnswer

(* The packet sent last is cut anew. *)
Recut(s, n) ==
  /\ \E rest \in Remains :
       /\ rest # << >>
       /\ rest[Len(rest)].sequence = s
       /\ log' = [rest EXCEPT ![Len(rest)] = Entry(s, n)]
  /\ answer' = NoAnswer

(* What is sent for a packet of n fragments: a whole packet whatever is    *)
(* missing, otherwise the missing fragments it has.                        *)
Sent(n, missing) == IF n = 1 THEN {0} ELSE missing \cap (0..(n - 1))

Answer(r) ==
  \E rest \in Remains : \E i \in DOMAIN rest :
    /\ rest[i].sequence = r.sequence
    /\ rest[i].age < Ttl
    /\ log' = rest
    /\ answer' = [sequence  |-> r.sequence,
                  fragments |-> rest[i].fragments,
                  sent      |-> Sent(rest[i].fragments, r.missing),
                  age       |-> rest[i].age]

Expire == log' \in Remains /\ answer' = NoAnswer

Tick ==
  /\ log' = [i \in DOMAIN log |->
               [log[i] EXCEPT !.age = IF @ < Ttl THEN @ + 1 ELSE @]]
  /\ answer' = NoAnswer

Next ==
  \/ \E s \in Sequences, n \in 1..MaxFragments : Store(s, n) \/ Recut(s, n)
  \/ \E r \in Requests : Answer(r)
  \/ Expire
  \/ Tick

Spec == Init /\ [][Next]_<<log, answer>>
=============================================================================
