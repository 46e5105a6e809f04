------------------------------ MODULE ToolEvents ------------------------------
(***************************************************************************)
(* What a harness does in a turn, in the order it does it, and what of that *)
(* becomes the turn's events (tool_event of oneharness/report.rs, and the   *)
(* event lines of stream.rs, under src/crates/onejudge/src).                *)
(***************************************************************************)
EXTENDS Naturals, Sequences

Actions == {"tool", "words"}

(* Only its tools are the turn's events: what it says and thinks is not.     *)
tool_events(acts) ==
  LET kept[n \in 0 .. Len(acts)] ==
        IF n = 0 THEN <<>>
        ELSE IF acts[n] = "tool" THEN Append(kept[n - 1], acts[n])
        ELSE kept[n - 1]
  IN kept[Len(acts)]
===============================================================================
