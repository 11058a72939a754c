------------------------------ MODULE FecState ------------------------------
(***************************************************************************)
(* FecState of crates/server/src/main.rs as a value: the parity frames and *)
(* the recent payloads that reorder_loop keeps, with the queues that bound *)
(* them, and what can be reconstructed from them.                          *)
(*                                                                         *)
(* A payload is the set of source packets it is the exclusive or of; two   *)
(* payloads combine to their symmetric difference, so that a payload put   *)
(* together from the wrong packets is not a singleton.                     *)
(***************************************************************************)
EXTENDS Window

CONSTANTS
  LengthOf,      \* source packet |-> length of its payload
  FrameLimit,    \* FEC_FRAME_TRACK_LIMIT, 256 in the code
  PayloadLimit   \* FEC_PAYLOAD_TRACK_LIMIT, 4096 in the code

ASSUME FecStateAssumption == FrameLimit \in Nat /\ PayloadLimit \in Nat

EmptyFec ==
  [ frames        |-> << >>,   \* base sequence |-> frame
    frame_order   |-> << >>,
    payloads      |-> << >>,   \* sequence |-> payload
    payload_order |-> << >> ]

Length(payload) == Max({0} \cup {LengthOf[k] : k \in payload})

-----------------------------------------------------------------------------
(* enforce_frame_limit and enforce_payload_limit: pop the front of order   *)
(* until held has limit entries.  The least number of pops that does.      *)

Excess(held, order, limit) ==
  Min({n \in 0..Len(order) :
         \/ n = Len(order)
         \/ Cardinality(DOMAIN held \ Range(SubSeq(order, 1, n))) <= limit})

(* insert_frame *)
InsertFrame(fec, frame) ==
  LET frames == With(fec.frames, [b \in {frame.base} |-> frame])
      order  == IF frame.base \in DOMAIN fec.frames THEN fec.frame_order
                ELSE Append(fec.frame_order, frame.base)
      excess == Excess(frames, order, FrameLimit)
  IN  [fec EXCEPT !.frames      = Without(frames, Range(SubSeq(order, 1, excess))),
                  !.frame_order = SubSeq(order, excess + 1, Len(order))]

(* Variant: a payload stored again is queued again. *)
InsertPayload_AlwaysQueues(fec, s, payload) ==
  LET payloads == With(fec.payloads, [t \in {s} |-> payload])
      order    == Append(fec.payload_order, s)
      excess   == Excess(payloads, order, PayloadLimit)
  IN  [fec EXCEPT !.payloads      = Without(payloads, Range(SubSeq(order, 1, excess))),
                  !.payload_order = SubSeq(order, excess + 1, Len(order))]

(* insert_payload, for a media sequence *)
InsertPayload(fec, s, payload) ==
  LET payloads == With(fec.payloads, [t \in {s} |-> payload])
      order    == Append(fec.payload_order, s)
      excess   == Excess(payloads, order, PayloadLimit)
  IN  IF s \in DOMAIN fec.payloads THEN fec
      ELSE [fec EXCEPT !.payloads      = Without(payloads, Range(SubSeq(order, 1, excess))),
                       !.payload_order = SubSeq(order, excess + 1, Len(order))]

-----------------------------------------------------------------------------
(* recover_ready *)

SequenceAfter(s, n) == (s + n) % (MaxMediaSequence + 1)

Indices(frame) == DOMAIN frame.lengths

(* Variant: the sequences of a group do not wrap. *)
SequenceAt_NoWrap(frame, i) == frame.base + i - 1

SequenceAt(frame, i) == SequenceAfter(frame.base, i - 1)

(* payload_for *)
Known(fec, w, s) == s \in DOMAIN fec.payloads \cup DOMAIN w.buffered

PayloadFor(fec, w, s) ==
  IF s \in DOMAIN fec.payloads THEN fec.payloads[s] ELSE w.buffered[s].payload

AbsentFrom(fec, w, frame) == {i \in Indices(frame) : ~Known(fec, w, SequenceAt(frame, i))}

(* The scan stops at a payload of another length, or at the second packet  *)
(* that is absent, whichever comes first.                                  *)
Unusable(fec, w, frame) ==
  LET absent == AbsentFrom(fec, w, frame)
  IN  \E i \in Indices(frame) \ absent :
        /\ Length(PayloadFor(fec, w, SequenceAt(frame, i))) # frame.lengths[i]
        /\ Cardinality({j \in absent : j < i}) <= 1

Waits(fec, w, frame) ==
  ~Unusable(fec, w, frame) /\ Cardinality(AbsentFrom(fec, w, frame)) > 1

(* The exclusive or of a function to payloads. *)
Xor(f) ==
  {k \in UNION {f[i] : i \in DOMAIN f} : Cardinality({i \in DOMAIN f : k \in f[i]}) % 2 = 1}

Combined(fec, w, frame) ==
  LET known == Indices(frame) \ AbsentFrom(fec, w, frame)
  IN  Xor([i \in known \cup {0} |->
             IF i = 0 THEN frame.parity ELSE PayloadFor(fec, w, SequenceAt(frame, i))])

(* What the frame with base b gives: the packet that alone is absent, if   *)
(* it is not behind next, as a set of at most one.                         *)
RecoveredFrom(fec, w, b) ==
  LET frame  == fec.frames[b]
      absent == AbsentFrom(fec, w, frame)
  IN  {[sequence |-> SequenceAt(frame, i), payload |-> Combined(fec, w, frame)] :
         i \in {j \in absent : /\ absent = {j}
                               /\ ~Unusable(fec, w, frame)
                               /\ SequenceAt(frame, j) >= w.next}}

(* Every frame in the order of their bases, sequence i - 1 being the i-th  *)
(* that may be one; a frame that does not wait for more is removed.        *)
RecoverReady(fec, w) ==
  [ fec       |-> [fec EXCEPT !.frames =
                     [b \in {c \in DOMAIN @ : Waits(fec, w, @[c])} |-> @[b]]],
    recovered |-> [i \in 1..(MaxMediaSequence + 1) |->
                     IF i - 1 \in DOMAIN fec.frames THEN RecoveredFrom(fec, w, i - 1) ELSE {}] ]

-----------------------------------------------------------------------------
(* The stages of the loop that touch FecState, on a pair of both.          *)

Store(fec, o) == InsertPayload(fec, o.sequence, o.payload)

(* The payloads that moving window v.window to w forwarded are stored.     *)
Moved(v, w) ==
  [ window |-> w,
    fec    |-> FoldLeft(Store, v.fec, SubSeq(w.out, Len(v.window.out) + 1, Len(w.out))) ]

(* accept_complete_payload *)
AcceptPayload(v, s, payload) ==
  Moved([v EXCEPT !.fec = InsertPayload(@, s, payload)],
        Accept(v.window, [t \in {s} |-> payload]))

(* What a frame gave is accepted unless it was forwarded or buffered since. *)
AcceptRecovered(v, given) ==
  LET w        == v.window
      accepted == {r \in given : /\ r.sequence >= w.next
                                 /\ r.sequence \notin w.seen \cup DOMAIN w.buffered}
  IN  IF accepted = {} THEN v
      ELSE LET r == CHOOSE r \in accepted : TRUE
           IN  AcceptPayload(v, r.sequence, r.payload)

OnePass(v) ==
  LET ready == RecoverReady(v.fec, v.window)
  IN  FoldLeft(AcceptRecovered, [v EXCEPT !.fec = ready.fec], ready.recovered)

(* recover_fec_ready.  Every pass that accepts something removes a frame,  *)
(* so as many passes as there are frames are enough.                       *)
Pass(v, i) == OnePass(v)

RecoverAll(v) == FoldLeft(Pass, v, [i \in 1..Cardinality(DOMAIN v.fec.frames) |-> i])

(* advance_reorder_window, without repair *)
AdvanceWithFec(v) ==
  LET u == RecoverAll(v)
  IN  Moved(u, Drain(Expire(u.window)))
=============================================================================
