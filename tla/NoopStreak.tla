------------------------------ MODULE NoopStreak -----------------------------
(***************************************************************************)
(* NoopStreak of src/crates/onejudge/src/engine.rs: how many consecutive   *)
(* no-op exchanges a conversation has just produced. One exchange is the   *)
(* message that opened a worker turn and the turn it produced. Only what   *)
(* the streak reads of it is kept: whether the turn recorded tool events,  *)
(* whether the instruction and the reply are both tiny, and what the reply *)
(* said once it is normalized.                                             *)
(***************************************************************************)
EXTENDS Naturals

CONSTANTS Replies,            \* what a normalized reply may say
          NOOP_SETTLE_LIMIT   \* how many repeated no-op exchanges settle a run

ASSUME NoopAssumption == NOOP_SETTLE_LIMIT \in Nat \ {0} /\ "none" \notin Replies

Exchange == [tools : BOOLEAN, tiny : BOOLEAN, says : Replies]

Quiet(x) == ~x.tools /\ x.tiny

NoStreak == [repeated |-> "none", count |-> 0]
Streak == [repeated : Replies \cup {"none"}, count : Nat]

(* NoopStreak::observe: the streak after one more exchange. *)
Observe(s, x) ==
  IF ~Quiet(x) THEN NoStreak
  ELSE [repeated |-> x.says,
        count |-> IF s.repeated = x.says THEN s.count + 1 ELSE 1]

Settles(s) == s.count >= NOOP_SETTLE_LIMIT
=============================================================================
