----------------------------- MODULE MCSchedule -----------------------------
(* Two pool threads and the constructing thread, with and without userCall;*)
(* one callback and one fiber, so that both ways to run a task occur and a *)
(* second task can be queued while the first is taken; the fiber yields    *)
(* whenever it likes and is scheduled once more, so that a second thread   *)
(* can get it while the first has not let go of it.                        *)
EXTENDS Schedule
=============================================================================
