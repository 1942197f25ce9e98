------------------------------- MODULE Interrupts -------------------------------
(***************************************************************************)
(* Interrupts of the interpreter: the flags of d/interrupts.d, the handler *)
(* of SIGINT in d/M2lib.c, and what eval, handleError and shieldfun of     *)
(* d/evaluate.d make of them, in src/M2/Macaulay2.                         *)
(*                                                                         *)
(* The handler runs on the interpreter's thread (tryGlobalInterrupt sends  *)
(* the signal there) between any two of its reads and writes of the flags. *)
(* eval looks at exceptionFlag before each piece of code; what that code   *)
(* does is for the module that extends this one to say.  Alarms and        *)
(* stepping are left out, and the user who is asked whether to exit, by a  *)
(* second interrupt, says no.                                              *)
(***************************************************************************)
EXTENDS Integers

CONSTANTS
  MaxSignals,  \* bound: signals
  MaxLevels    \* bound: levels of eval an error passes, inside a shield and outside

ASSUME InterruptAssumption == MaxSignals \in Nat /\ MaxLevels \in Nat \ {0}

VARIABLES
  interruptedFlag, exceptionFlag, interruptPending, interruptShield,
  pc,          \* "eval": before the next piece of code; "run": in it
  loaded,      \* what determineExceptionFlag has read and not yet stored
  levels,      \* levels of eval the error still has to pass
  unwinding,   \* an error is on its way up
  signals,
  owed,        \* history: an interrupt came that no error has answered
  straddled    \* history: it came as shieldfun was putting the flags back

flags == <<interruptedFlag, exceptionFlag, interruptPending, interruptShield>>
interruptVars == <<flags, pc, loaded, levels, unwinding, signals, owed, straddled>>

InterruptInit ==
  /\ interruptedFlag = FALSE /\ exceptionFlag = FALSE
  /\ interruptPending = FALSE /\ interruptShield = FALSE
  /\ pc = "eval" /\ loaded = FALSE /\ levels = 0 /\ unwinding = FALSE
  /\ signals = 0 /\ owed = FALSE /\ straddled = FALSE

-----------------------------------------------------------------------------
(* The signal.                                                              *)

\* Mutant: a signal is not put off by the shield.
SignalUnshielded ==
  interruptedFlag' = TRUE /\ exceptionFlag' = TRUE /\ UNCHANGED interruptPending

\* setInterruptFlag, or later.
Signal ==
  IF interruptShield THEN interruptPending' = TRUE /\ UNCHANGED <<interruptedFlag, exceptionFlag>>
  ELSE interruptedFlag' = TRUE /\ exceptionFlag' = TRUE /\ UNCHANGED interruptPending

\* Flags are being put back by shieldfun: the signal is overwritten, or is not seen.
Straddling == ~unwinding /\ (pc = "restore" \/ (pc = "store" /\ ~loaded))

Interrupt ==
  /\ signals < MaxSignals /\ ~interruptedFlag /\ ~interruptPending
  /\ Signal
  /\ signals' = signals + 1 /\ owed' = TRUE
  /\ straddled' = (straddled \/ Straddling)
  /\ UNCHANGED <<interruptShield, pc, loaded, levels, unwinding>>

-----------------------------------------------------------------------------
(* The evaluator.  Each step writes one flag at most.                       *)

At(p)   == pc = p /\ UNCHANGED signals
Goto(p) == pc' = p
Same(v) == UNCHANGED <<v, loaded, levels, unwinding, owed, straddled>>

Eval ==
  /\ At("eval") /\ Goto(IF exceptionFlag THEN "test" ELSE "run")
  /\ Same(flags)

\* interruptMessage, or "unknown exception"
Raise ==
  /\ At("test") /\ Goto(IF interruptedFlag THEN "clear" ELSE "error")
  /\ unwinding' = TRUE /\ levels' \in 1 .. MaxLevels
  /\ UNCHANGED <<flags, loaded, owed, straddled>>

\* clearInterruptFlag
ClearInterruptFlag ==
  /\ At("clear") /\ Goto("load") /\ interruptedFlag' = FALSE
  /\ Same(<<exceptionFlag, interruptPending, interruptShield>>)

\* Mutant: what is pending is forgotten.
RestoreNothing ==
  /\ At("restore") /\ Goto("load") /\ interruptedFlag' = FALSE
  /\ Same(<<exceptionFlag, interruptPending, interruptShield>>)

\* shieldfun stores what is pending.
Restore ==
  /\ At("restore") /\ Goto("load") /\ interruptedFlag' = interruptPending
  /\ Same(<<exceptionFlag, interruptPending, interruptShield>>)

\* determineExceptionFlag
LoadFlag ==
  /\ At("load") /\ Goto("store") /\ loaded' = interruptedFlag
  /\ UNCHANGED <<flags, levels, unwinding, owed, straddled>>

StoreFlag ==
  /\ At("store") /\ Goto(IF unwinding THEN "error" ELSE "eval")
  /\ exceptionFlag' = loaded /\ loaded' = FALSE
  /\ UNCHANGED <<interruptedFlag, interruptPending, interruptShield, levels, unwinding, owed, straddled>>

\* handleError: clearAllFlags, at each level.
HandleError ==
  /\ At("error") /\ Goto("wipe") /\ exceptionFlag' = FALSE
  /\ Same(<<interruptedFlag, interruptPending, interruptShield>>)

Wipe ==
  /\ At("wipe") /\ Goto("wiped") /\ interruptedFlag' = FALSE
  /\ Same(<<exceptionFlag, interruptPending, interruptShield>>)

\* Mutant: what is pending stays.
LeavePending == UNCHANGED interruptPending

ClearPending == interruptPending' = FALSE

Wiped ==
  /\ At("wiped") /\ ClearPending
  /\ owed' = exceptionFlag /\ straddled' = FALSE
  /\ levels' = levels - 1 /\ unwinding' = (levels > 1 \/ interruptShield)
  /\ Goto(IF levels > 1 THEN "error" ELSE IF interruptShield THEN "unshield" ELSE "eval")
  /\ UNCHANGED <<interruptedFlag, exceptionFlag, interruptShield, loaded>>

\* shieldfun
EnterShield ==
  /\ At("run") /\ ~interruptShield /\ Goto("enter") /\ interruptPending' = interruptedFlag
  /\ Same(<<interruptedFlag, exceptionFlag, interruptShield>>)

BeginShield ==
  /\ At("enter") /\ Goto("eval") /\ interruptShield' = TRUE
  /\ Same(<<interruptedFlag, exceptionFlag, interruptPending>>)

LeaveShield ==
  /\ At("run") /\ interruptShield /\ Goto("unshield")
  /\ Same(flags)

\* An error goes on through the levels outside.
Unshield ==
  /\ At("unshield") /\ Goto("restore") /\ interruptShield' = FALSE
  /\ levels' \in (IF unwinding THEN 1 .. MaxLevels ELSE {0})
  /\ UNCHANGED <<interruptedFlag, exceptionFlag, interruptPending, loaded, unwinding, owed, straddled>>

\* What is no piece of code.
Evaluator ==
  \/ Eval \/ Raise \/ ClearInterruptFlag \/ Restore \/ LoadFlag \/ StoreFlag
  \/ HandleError \/ Wipe \/ Wiped \/ BeginShield \/ Unshield

-----------------------------------------------------------------------------

FlagsOK ==
  /\ flags \in [1 .. 4 -> BOOLEAN]
  /\ pc \in {"eval", "run", "test", "clear", "load", "store", "error", "wipe", "wiped",
             "enter", "unshield", "restore"}
  /\ loaded \in BOOLEAN /\ unwinding \in BOOLEAN /\ owed \in BOOLEAN /\ straddled \in BOOLEAN
  /\ levels \in 0 .. MaxLevels /\ signals \in 0 .. MaxSignals

\* No flag is up without an interrupt that is still to be answered: none is reported twice,
\* or when it has long been answered by an error (clearAllFlags, shieldfun).
OnlyOwed == interruptedFlag \/ exceptionFlag \/ interruptPending => owed

\* Every interrupt is answered by an error once the shield, if any, is left: eval and
\* shieldfun see to that.  The exception: it came as shieldfun was putting the flags back.
Answered == owed ~> ~owed \/ straddled

-----------------------------------------------------------------------------
(* The inductive invariants of the proofs (FileOutputProofs).               *)

\* Where an error is on its way up: it has a level left to pass, but in the shield it ends.
UnwindingInv ==
  /\ unwinding => pc \in {"clear", "load", "store", "error", "wipe", "wiped", "unshield", "restore"}
  /\ pc \in {"clear", "error", "wipe", "wiped"} => unwinding
  /\ unwinding /\ pc # "unshield" => levels > 0

\* What is read to be stored is owed, and the flag that clearAllFlags has wiped is up again only
\* with exceptionFlag.
OwedInv ==
  /\ OnlyOwed
  /\ loaded => pc = "store" /\ owed
  /\ pc = "wiped" /\ interruptedFlag => exceptionFlag

\* eval, which looks at exceptionFlag alone, sees every interrupt that the code could see.
FlagsAgree ==
  ~unwinding /\ ~straddled /\ interruptedFlag =>
    /\ pc \notin {"load", "store"} => exceptionFlag
    /\ pc = "store" => loaded
=============================================================================
