------------------------------ MODULE FileOutput -------------------------------
(***************************************************************************)
(* The output side of a file of the interpreter, d/stdio.d of              *)
(* src/M2/Macaulay2: what the operators << put into its buffer and its     *)
(* list of nets, and what flush and close write, by writes that may be     *)
(* short or fail and between the interrupts of module Interrupts.          *)
(*                                                                         *)
(* Characters are numbered as the program gives them, endl gives one more, *)
(* and a net is a line of one character: joining nets is putting them one  *)
(* behind the other.  One thread uses the file; M2File has what several do *)
(* with it.                                                                *)
(***************************************************************************)
EXTENDS Interrupts, Sequences, FiniteSets, SequencesExt

CONSTANTS
  BufferSize,  \* length(foss.outbuffer)
  MaxGiven     \* bound: characters given

ASSUME FileAssumption == BufferSize \in Nat \ {0} /\ MaxGiven \in Nat

VARIABLES
  written,     \* what the system took
  outbuffer,   \* foss.outbuffer up to foss.outindex
  outbol,      \* where the line begins
  nets, hadNet,
  output,      \* o.output
  outisatty,   \* it never changes
  fd,          \* "open", "closed", or "leaked": forgotten and still open
  error,       \* o.error
  call,        \* the operation, and its result once it is over
  todo,        \* the calls it has still to make, in their order
  rest,        \* x of simpleout, from i on
  given,       \* the last character given
  began,       \* history: code has run in this shield
  reported     \* history: characters that were missing when an error was raised

fileVars == <<written, outbuffer, outbol, nets, hadNet, output, fd, error, call, todo, rest, given>>
vars == <<interruptVars, fileVars, outisatty, began, reported>>

Init ==
  /\ InterruptInit
  /\ written = << >> /\ outbuffer = << >> /\ outbol = 0 /\ nets = << >> /\ hadNet = FALSE
  /\ output = TRUE /\ outisatty \in BOOLEAN /\ fd = "open" /\ error = FALSE
  /\ call = [op |-> "none", ok |-> TRUE] /\ todo = << >> /\ rest = << >> /\ given = 0
  /\ began = FALSE /\ reported = {}

-----------------------------------------------------------------------------
(* The pieces of code: each is the calls it makes, one after the other.     *)

Executing == At("run") /\ Same(flags) /\ UNCHANGED <<outisatty, reported>>

Calls(op) ==
  CASE op = "char"  -> <<"put">>
    [] op = "endl"  -> <<"nets", "put", IF outisatty THEN "simpleflush" ELSE "bol">>
    [] op = "flush" -> <<"nets", "simpleflush">>
    [] op = "close" -> <<"nets", "simpleflush", "close">>
    [] OTHER        -> << >>

\* Code that does not use the file, or << when the file is no output file.
Other ==
  /\ Executing /\ todo = << >> /\ Goto("eval")
  /\ began' = interruptShield /\ UNCHANGED fileVars

Begin(op) ==
  /\ Executing /\ todo = << >> /\ output /\ UNCHANGED pc
  /\ op \in {"char", "endl"} => given < MaxGiven
  /\ given' = IF op \in {"char", "endl"} THEN given + 1 ELSE given
  /\ call' = [op |-> op, ok |-> TRUE] /\ todo' = Calls(op)
  /\ began' = interruptShield
  /\ UNCHANGED <<written, outbuffer, outbol, nets, hadNet, output, fd, error, rest>>

\* Mutant: the line so far goes to the nets and stays in the buffer too.
LineKept == UNCHANGED outbuffer

\* foss.outindex = foss.outbol
LineTaken == outbuffer' = SubSeq(outbuffer, 1, outbol)

\* o << n, for a net n: it comes to stand beside what the line has so far.
Net ==
  /\ Executing /\ todo = << >> /\ output /\ given < MaxGiven /\ Goto("eval")
  /\ given' = given + 1 /\ hadNet' = TRUE
  /\ IF hadNet THEN nets' = Append(nets, given + 1) /\ UNCHANGED outbuffer
     ELSE /\ nets' = nets \o SubSeq(outbuffer, outbol + 1, Len(outbuffer)) \o <<given + 1>>
          /\ LineTaken
  /\ call' = [op |-> "net", ok |-> TRUE] /\ began' = interruptShield
  /\ UNCHANGED <<written, outbol, output, fd, error, todo, rest>>

-----------------------------------------------------------------------------
(* The calls.                                                               *)

Step(c) == Executing /\ todo # << >> /\ Head(todo) = c /\ UNCHANGED <<began, given>>

\* What remains to be done; nothing: the operation is over.
Go(t)     == todo' = t /\ Goto(IF t = << >> THEN "eval" ELSE "run")
Return    == Go(Tail(todo)) /\ UNCHANGED <<call, rest>>
Make(c)   == Go(<<c>> \o todo) /\ UNCHANGED <<call, rest>>

\* Mutant: simpleout goes on after an ERROR.
ReturnErrorIgnored ==
  IF Len(todo) > 1 /\ todo[2] = "store" THEN Go(Tail(Tail(todo))) /\ UNCHANGED <<call, rest>>
  ELSE Return

\* simpleflush returns ERROR: o << c goes without its character, closeOut without closing,
\* and the others come back with ERROR.
ReturnError ==
  IF Len(todo) > 1 /\ todo[2] = "store" THEN Go(Tail(Tail(todo))) /\ UNCHANGED <<call, rest>>
  ELSE /\ Go(IF "close" \in ToSet(todo) THEN <<"leave">> ELSE << >>)
       /\ call' = [call EXCEPT !.ok = FALSE] /\ rest' = << >>

\* flushnets takes the nets from the file before it writes them.
FlushNets ==
  /\ Step("nets")
  /\ IF hadNet THEN /\ rest' = nets /\ nets' = << >> /\ hadNet' = FALSE
                    /\ Go(<<"simpleout">> \o Tail(todo)) /\ UNCHANGED call
     ELSE Return /\ UNCHANGED <<nets, hadNet>>
  /\ UNCHANGED <<written, outbuffer, outbol, output, fd, error>>

\* As many characters at a time as the buffer has room for.
SimpleOut ==
  /\ Step("simpleout")
  /\ UNCHANGED <<written, outbol, nets, hadNet, output, fd, error>>
  /\ IF rest = << >> THEN Return /\ UNCHANGED outbuffer
     ELSE IF Len(outbuffer) = BufferSize THEN Make("simpleflush") /\ UNCHANGED outbuffer
     ELSE LET room == BufferSize - Len(outbuffer)
              b    == IF Len(rest) < room THEN Len(rest) ELSE room
          IN  /\ outbuffer' = outbuffer \o SubSeq(rest, 1, b)
              /\ rest' = SubSeq(rest, b + 1, Len(rest)) /\ UNCHANGED <<todo, call, pc>>

\* o << c, which drops c when it finds the interrupt.
PutChar ==
  /\ Step("put")
  /\ UNCHANGED <<written, outbol, hadNet, output, fd, error>>
  /\ IF interruptedFlag THEN Return /\ UNCHANGED <<outbuffer, nets>>
     ELSE IF hadNet THEN Return /\ nets' = Append(nets, given) /\ UNCHANGED outbuffer
     ELSE /\ UNCHANGED <<nets, outbuffer, call, rest>>
          /\ Go((IF Len(outbuffer) = BufferSize THEN <<"simpleflush", "store">> ELSE <<"store">>)
                \o Tail(todo))

StoreChar ==
  /\ Step("store") /\ Return
  /\ outbuffer' = Append(outbuffer, given)
  /\ UNCHANGED <<written, outbol, nets, hadNet, output, fd, error>>

BeginLine ==
  /\ Step("bol") /\ Return
  /\ outbol' = Len(outbuffer)
  /\ UNCHANGED <<written, outbuffer, nets, hadNet, output, fd, error>>

\* foss.outbol = 0
LineStartReset == outbol' = 0

SimpleFlush ==
  /\ Step("simpleflush") /\ LineStartReset
  /\ IF outbuffer = << >> THEN Return
     ELSE Go(<<"while">> \o Tail(todo)) /\ UNCHANGED <<call, rest>>
  /\ UNCHANGED <<written, outbuffer, nets, hadNet, output, fd, error>>

\* The loop of simpleflush: the system is asked to write while there is something left and no
\* interrupt; an interrupt erases what is left.
WriteLoop ==
  /\ Step("while")
  /\ IF interruptedFlag THEN outbuffer' = << >> /\ ReturnError
     ELSE /\ UNCHANGED outbuffer
          /\ IF outbuffer = << >> THEN Return
             ELSE Go(<<"write">> \o Tail(todo)) /\ UNCHANGED <<call, rest>>
  /\ UNCHANGED <<written, outbol, nets, hadNet, output, fd, error>>

Write ==
  /\ Step("write") /\ Go(<<"while">> \o Tail(todo)) /\ UNCHANGED <<call, rest>>
  /\ \E n \in 1 .. Len(outbuffer) :
       /\ written' = written \o SubSeq(outbuffer, 1, n)
       /\ outbuffer' = SubSeq(outbuffer, n + 1, Len(outbuffer))
  /\ UNCHANGED <<outbol, nets, hadNet, output, fd, error>>

\* The buffer stays, for another attempt.
WriteFails ==
  /\ Step("write") /\ ReturnError /\ error' = TRUE
  /\ UNCHANGED <<written, outbuffer, outbol, nets, hadNet, output, fd>>

\* closeOut; if flush failed, close(o.outfd) is not called.
CloseOut ==
  /\ (Step("close") /\ fd' = "closed") \/ (Step("leave") /\ fd' = "leaked")
  /\ Return /\ output' = FALSE
  /\ UNCHANGED <<written, outbuffer, outbol, nets, hadNet, error>>

-----------------------------------------------------------------------------
(* The characters that are in the file and those that are nowhere.          *)

Stream  == written \o outbuffer \o rest \o nets
Awaited == IF {"put", "store"} \cap ToSet(todo) # {} THEN {given} ELSE {}
Missing == 1 .. given \ (ToSet(Stream) \cup Awaited)

Code ==
  \/ Other \/ Net \/ FlushNets \/ SimpleOut \/ PutChar \/ StoreChar \/ BeginLine
  \/ SimpleFlush \/ WriteLoop \/ Write \/ WriteFails \/ CloseOut
  \/ \E op \in {"char", "endl", "flush", "close"} : Begin(op)

\* Code that uses shield begins, and ends, between two other pieces.
ShieldCode == todo = << >> /\ (EnterShield \/ LeaveShield) /\ UNCHANGED <<fileVars, outisatty, began, reported>>

Thread ==
  \/ Code \/ ShieldCode
  \/ /\ Evaluator /\ UNCHANGED <<fileVars, outisatty>>
     /\ began' = (began /\ interruptShield')
     /\ reported' = IF unwinding' /\ ~unwinding THEN Missing ELSE reported

Next == Thread \/ (Interrupt /\ UNCHANGED <<fileVars, outisatty, began, reported>>)

Spec == Init /\ [][Next]_vars

\* The thread is not stopped, and the code in a shield comes to its end.
FairSpec == Spec /\ WF_vars(Thread) /\ SF_vars(ShieldCode /\ LeaveShield)

-----------------------------------------------------------------------------

\* The shape of every variable; the line begins where the buffer has it (simpleflush resets
\* outbol whenever it takes from the buffer), so that what << cuts off for a net is there.
TypeOK ==
  /\ FlagsOK
  /\ Len(outbuffer) <= BufferSize /\ outbol \in 0 .. Len(outbuffer)
  /\ ToSet(Stream) \subseteq 1 .. given /\ given \in 0 .. MaxGiven
  /\ ~hadNet => nets = << >>
  /\ output = (fd = "open") /\ fd \in {"open", "closed", "leaked"}

\* Whatever was flushed, cut off for nets, written in part or erased: no character appears
\* twice or ahead of one that was given before it.
InOrder == \A i, j \in DOMAIN Stream : i < j => Stream[i] < Stream[j]

\* When the next piece of code runs, no character is missing that an error has not told of:
\* the one that answers the interrupt, or o.error after a write that failed.  The exception:
\* an interrupt as shieldfun was putting the flags back, which drops output and tells nobody.
NothingLostQuietly ==
  pc = "run" /\ todo = << >> => Missing \subseteq reported \/ error \/ straddled

\* When flush or close comes back without an error, all that was given and is not missing was
\* written, that in the nets too; the descriptor is closed.
FlushedMeansWritten ==
  call.op \in {"flush", "close"} /\ todo = << >> /\ call.ok =>
    /\ outbuffer = << >> /\ nets = << >> /\ rest = << >>
    /\ call.op = "close" => fd = "closed"

\* While code runs in a shield, no interrupt takes output from it or ends it.
ShieldKeeps ==
  [][began /\ interruptShield /\ ~unwinding /\ ~straddled /\ ~straddled'
       => (Missing' \subseteq Missing \/ error') /\ ~unwinding']_vars

\* Every operation on the file comes back.
CallsReturn == todo # << >> ~> todo = << >>

\* The flags of the interrupts and those of the file tell the truth in every moment.
FlagsTruthful == TypeOK /\ OnlyOwed

\* What was given to the file reaches it in order, or an error tells that it did not.
OutputKept == InOrder /\ NothingLostQuietly /\ FlushedMeansWritten

-----------------------------------------------------------------------------
(* The inductive invariants of the proofs (FileOutputProofs).               *)

CallNames ==
  {"nets", "simpleout", "put", "store", "bol", "simpleflush", "while", "write", "close", "leave"}

OpNames == {"none", "char", "endl", "flush", "close", "net"}

\* What an operation calls after the character, and after the nets.
Ending ==
  CASE call.op = "endl"  -> <<IF outisatty THEN "simpleflush" ELSE "bol">>
    [] call.op = "flush" -> <<"simpleflush">>
    [] call.op = "close" -> <<"simpleflush", "close">>
    [] OTHER             -> << >>
AfterNets == IF call.op = "endl" THEN <<"put">> \o Ending ELSE Ending

\* The call being made, what comes after it, and what the calls before it left behind.
OnPut   == call.op \in {"char", "endl"} /\ Tail(todo) = Ending /\ rest = << >>
OnNets  == call.op \in {"endl", "flush", "close"} /\ Tail(todo) = AfterNets
OnStore == /\ call.op \in {"char", "endl"} /\ Tail(todo) = <<"store">> \o Ending
           /\ rest = << >> /\ ~hadNet
OnOut   == /\ call.op \in {"endl", "flush", "close"} /\ Tail(todo) = <<"simpleout">> \o AfterNets
           /\ ~hadNet
OnEnd   == /\ call.op \in {"endl", "flush", "close"} /\ Ending # <<"bol">> /\ Tail(todo) = Tail(Ending)
           /\ rest = << >> /\ (call.op # "endl" => ~hadNet)
OnClose == call.op = "close" /\ Tail(todo) = << >> /\ rest = << >>

CallInv ==
  IF todo = << >> THEN rest = << >> /\ FlushedMeansWritten
  ELSE /\ pc = "run"
       /\ \/ Head(todo) = "nets" /\ OnNets /\ rest = << >>
          \/ Head(todo) = "simpleout" /\ OnNets /\ ~hadNet
          \/ Head(todo) = "put" /\ OnPut
          \/ Head(todo) = "store" /\ OnPut /\ ~hadNet /\ Len(outbuffer) < BufferSize
          \/ Head(todo) = "simpleflush" /\ (OnStore \/ OnOut \/ OnEnd)
          \/ Head(todo) \in {"while", "write"} /\ (OnStore \/ OnOut \/ OnEnd) /\ outbol = 0
          \/ Head(todo) = "bol" /\ call.op = "endl" /\ Tail(todo) = << >> /\ rest = << >>
          \/ Head(todo) = "close" /\ OnClose /\ ~hadNet /\ outbuffer = << >>
          \/ Head(todo) = "leave" /\ OnClose /\ ~call.ok

\* The file, and the character that is given and not yet put: it is not in the file.
FileInv ==
  /\ {written, outbuffer, rest, nets} \subseteq Seq(Nat) /\ todo \in Seq(CallNames)
  /\ call \in [op : OpNames, ok : BOOLEAN] /\ hadNet \in BOOLEAN
  /\ given \in Nat
  /\ Len(outbuffer) <= BufferSize /\ outbol \in 0 .. Len(outbuffer)
  /\ ToSet(Stream) \subseteq 1 .. given
  /\ Awaited \subseteq 1 .. given \ ToSet(Stream)
  /\ ~hadNet => nets = << >>
  /\ InOrder

\* What was dropped when the code found the interrupt, the error that answers it tells of.
LossInv ==
  /\ unwinding => Missing \subseteq reported \/ error
  /\ \/ Missing \subseteq reported \/ error \/ straddled
     \/ /\ interruptedFlag /\ exceptionFlag /\ ~unwinding
        /\ pc \in {"eval", "test"} \/ (pc = "run" /\ todo # << >>)

\* No flag is up while code runs in a shield.
ShieldInv ==
  /\ began => interruptShield
  /\ pc \in {"enter", "restore"} \/ (~unwinding /\ pc \in {"load", "store"}) => ~interruptShield
  /\ interruptShield /\ ~unwinding /\ ~straddled /\ (began \/ pc = "run") =>
       pc \in {"eval", "run", "unshield"} /\ ~interruptedFlag /\ ~exceptionFlag
=============================================================================
