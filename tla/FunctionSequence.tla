-------------------------- MODULE FunctionSequence --------------------------
(***************************************************************************)
(* FunctionSequence of the file manager (function_sequence.js): runs an   *)
(* array of steps one after the other, each step ending by calling        *)
(* nextStep (often from an asynchronous read's callback), finish or       *)
(* onError.                                                                *)
(*                                                                         *)
(* A sequence is a record                                                  *)
(*   idx        this.currentStepIdx_                                       *)
(*   failed     this.failed_                                               *)
(*   started    this.started                                               *)
(*   steps      this.steps_.length                                         *)
(*   succeeded  how often callback_ was called                             *)
(*   failures   how often failureCallback_ was called                      *)
(*   thrown     an exception left one of its methods                       *)
(* The steps themselves belong to the module that builds the sequence:    *)
(* after NextStep, Runs tells whether the step at the new idx is called.  *)
(***************************************************************************)
EXTENDS Integers

\* new FunctionSequence(name, steps, logger, callback, failureCallback)
NewSequence(n) ==
    [idx |-> -1, failed |-> FALSE, started |-> FALSE, steps |-> n,
     succeeded |-> 0, failures |-> 0, thrown |-> FALSE]

\* onError_(err): the log line reads this.steps_[currentStepIdx_].name,
\* which throws a TypeError when no step is current (before the first
\* step or after the last); otherwise the first error is reported.
OnError(s) ==
    CASE s.idx < 0 \/ s.idx >= s.steps -> [s EXCEPT !.thrown = TRUE]
      [] s.failed -> s
      [] OTHER -> [s EXCEPT !.failed = TRUE, !.failures = @ + 1]

\* finish_(): jump past the last step and call the success callback.
Finish(s) ==
    IF ~s.failed /\ s.idx < s.steps
    THEN [s EXCEPT !.idx = s.steps, !.succeeded = @ + 1]
    ELSE s

\* nextStep_ calling the success callback only once idx has passed the
\* array (an off-by-one of its bound check).
NextStepLate(s) ==
    CASE s.failed -> s
      [] s.idx + 1 > s.steps -> [s EXCEPT !.idx = @ + 1, !.succeeded = @ + 1]
      [] OTHER -> [s EXCEPT !.idx = @ + 1]

\* nextStep_(): nothing after a failure; otherwise advance, and past the
\* last step call the success callback.
NextStep(s) ==
    CASE s.failed -> s
      [] s.idx + 1 >= s.steps -> [s EXCEPT !.idx = @ + 1, !.succeeded = @ + 1]
      [] OTHER -> [s EXCEPT !.idx = @ + 1]

\* Whether nextStep_, taking s to s1, went on to call step s1.idx: it did
\* unless it returned on a failure or called the success callback.
Runs(s, s1) == ~s.failed /\ s1.succeeded = s.succeeded

\* start(): a second start throws; the first marks the sequence started
\* and calls nextStep.
Start(s) ==
    IF s.started THEN [s EXCEPT !.thrown = TRUE]
    ELSE NextStep([s EXCEPT !.started = TRUE])

\* The sequence has reported its outcome to its owner.
Reported(s) == s.succeeded + s.failures > 0

=============================================================================
