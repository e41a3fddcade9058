-------------------------- MODULE MCLoopbackDevice --------------------------
(***************************************************************************)
(* LoopbackDevice for TLC: two formats, the module's being the smaller.    *)
(***************************************************************************)
EXTENDS LoopbackDevice, TLC

CONSTANTS small, large

MCFormatSize == [f \in Formats |-> IF f = small THEN 1 ELSE 2]

\* Under stress, which has many more states, only what try_free_buffers and the
\* timers depend on.
MCControls ==
  [l \in Loads |-> {"keep_format", "timeout"} \union
                     (IF l = "calm" THEN {"sustain", "timeout_image_io"} ELSE {})]
MCLimits == [l \in Loads |-> IF l = "calm" THEN {0, MAX_OPENERS + 1} ELSE {}]

\* For the run of opens alone.
MCNone == [l \in Loads |-> {}]

OpenerSymmetry == Permutations(Openers)

=============================================================================
