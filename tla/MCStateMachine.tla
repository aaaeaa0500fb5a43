---------------------------- MODULE MCStateMachine ----------------------------
(***************************************************************************)
(* Instances of StateMachine for TLC.                                      *)
(***************************************************************************)
EXTENDS StateMachine

CONSTANTS s0, s1, s2, s3, s4, t1, t2

\* s0 waits for an event, s1 has a timeout, s2 is left at once, s3 is an end state with a
\* timeout that leads on to s4.  "go" leads from state to state, "skip" is not known
\* in s0.
Path == {<<s0, "go", s1>>, <<s1, "go", s2>>, <<s1, "skip", s3>>, <<s2, "at once", s3>>,
         <<s3, "at once", s4>>, <<s1, "late", s2>>, <<s3, "late", s4>>, <<s4, "late", s0>>, <<s0, "late", s1>>}

\* Timeouts that only report, or that move the machine.
EitherUse == {{}, {s0, s1}}

\* State_Example_Third of the sample: an event and its timeout lead to the first state.
Sample == {<<s0, "go", s1>>, <<s1, "go", s0>>, <<s1, "late", s0>>}
SampleUse == {{s1}}
=============================================================================
