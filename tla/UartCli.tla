------------------------------ MODULE UartCli ------------------------------
(***************************************************************************)
(* CLI_Task of src/uart_cli.c: its line editor, and the commands "latency" *)
(* (the report and the dump of LatencyProfiler) and "reset".  The other    *)
(* commands do not touch what is modelled here; they are words like any.   *)
(* Keys are read at the prompt only; those that come while a command is   *)
(* at work, which the UART keeps or drops, are left out.                   *)
(***************************************************************************)
EXTENDS LatencyProfiler

CONSTANTS
  Letters,     \* characters from 32 to 126
  LineLength,  \* sizeof(buf) - 1
  LatencyWord, \* the line "latency"
  ResetWord    \* the line "reset"

ASSUME LineAssumption ==
  /\ LineLength \in Nat
  /\ LatencyWord \in Seq(Letters) /\ ResetWord \in Seq(Letters)
  /\ LatencyWord # ResetWord

VARIABLE line   \* buf[0 .. idx - 1]

vars == << stats, reader, line >>

CliInit == Init /\ line = << >>

AtPrompt == pc = "prompt" /\ UNCHANGED << stats, reader >>

(* A slip in the next action: room for the terminating zero is forgotten. *)
TypeLetterPastEnd(c) ==
  /\ AtPrompt
  /\ Len(line) <= LineLength
  /\ line' = Append(line, c)

(* A letter beyond the end of the buffer is echoed and dropped. *)
TypeLetter(c) ==
  /\ AtPrompt
  /\ Len(line) < LineLength
  /\ line' = Append(line, c)

Backspace ==
  /\ AtPrompt
  /\ line # << >>
  /\ line' = SubSeq(line, 1, Len(line) - 1)

(* CR or LF: cli_dispatch.  The line is emptied when the command returns.  *)
EnterLatency ==
  /\ pc = "prompt"
  /\ line = LatencyWord
  /\ Goto("count")
  /\ UNCHANGED << stats, pos, loaded, counted, total, printed, rows, base, line >>

Prompt ==
  /\ Goto("prompt")
  /\ pos' = 0 /\ loaded' = 0 /\ counted' = 0 /\ total' = 0 /\ base' = 0
  /\ printed' = NoNumbers /\ rows' = << >>
  /\ line' = << >>

LatencyReturns ==
  /\ DumpDone
  /\ Prompt
  /\ UNCHANGED stats

EnterOther ==
  /\ AtPrompt
  /\ line \notin {LatencyWord, ResetWord}
  /\ line' = << >>

(* "reset" waits 20 ms before it pulls the line. *)
EnterReset ==
  /\ pc = "prompt"
  /\ line = ResetWord
  /\ Goto("reset")
  /\ UNCHANGED << stats, pos, loaded, counted, total, printed, rows, base, line >>

(* Reset_Handler clears memory, main calls lp_init, and CLI_Task starts.   *)
Reset ==
  /\ pc = "reset"
  /\ LpReset
  /\ Prompt

Next ==
  \/ \E e \in Elapsed : Probe(e) /\ UNCHANGED line
  \/ Report /\ UNCHANGED line
  \/ \E c \in Letters : TypeLetter(c)
  \/ Backspace
  \/ EnterLatency
  \/ LatencyReturns
  \/ EnterOther
  \/ EnterReset
  \/ Reset

Spec == CliInit /\ [][Next]_vars

(* The line never outgrows the buffer with its terminating zero. *)
TypeOK == ProfilerTypeOK /\ line \in Seq(Letters) /\ Len(line) <= LineLength
=============================================================================
