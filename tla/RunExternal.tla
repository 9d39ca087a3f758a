----------------------------- MODULE RunExternal ----------------------------
(***************************************************************************)
(* One call of ArchBuilderContext.run_external (builder/lib/context.py)    *)
(* and the pipes between the builder and its command: the builder writes   *)
(* all of stdin, closes it, waits for the command to exit, and only then   *)
(* reads the command's output.  gpg, gpg_eval, parse_preset_file and       *)
(* chpasswd go through it.                                                 *)
(*                                                                         *)
(* Pipes are bounded; the unit is whatever a read or a write moves.        *)
(***************************************************************************)
EXTENDS Naturals

CONSTANTS
  Capacity,    \* what a pipe holds
  MaxInput,    \* bound: length of the stdin argument
  MaxOutput    \* bound: what a command prints

ASSUME RunExternalAssumption ==
  Capacity \in Nat \ {0} /\ MaxInput \in Nat /\ MaxOutput \in Nat

(* The argument stdin: NoInput is None, 0 the empty string.                *)
NoInput == MaxInput + 1

VARIABLES
  input,      \* stdin
  want,       \* want_stdout
  output,     \* what the command prints before it exits
  reads,      \* does the command read its stdin to the end
  daemon,     \* "no", or a child of it that keeps stdout: "yet", "up", "gone"
  call,       \* the builder
  written,    \* units of stdin the builder has written
  inpipe,     \* units in the stdin pipe
  eof,        \* the builder has closed its end of the stdin pipe
  printed,    \* units the command has printed
  outpipe,    \* units in the stdout pipe
  exited,     \* the command has exited
  stdout      \* units run_external has read

config == <<input, want, output, reads>>
callVars == <<input, want, output, reads, daemon, call, written, inpipe, eof,
              printed, outpipe, exited, stdout>>

(* Without a stdin argument the command has the builder's stdin, which is  *)
(* not written to here.                                                    *)
CallInit ==
  /\ input \in 0 .. MaxInput + 1
  /\ want \in BOOLEAN
  /\ output \in 0 .. MaxOutput
  /\ reads \in IF input = NoInput THEN {FALSE} ELSE BOOLEAN
  /\ daemon \in {"no", "yet"}
  /\ call = IF input \in {0, NoInput} THEN "wait" ELSE "write"
  /\ written = 0 /\ inpipe = 0 /\ eof = FALSE
  /\ printed = 0 /\ outpipe = 0 /\ exited = FALSE
  /\ stdout = 0

(***************************************************************************)
(* The builder.                                                            *)
(***************************************************************************)
(* proc.stdin.write blocks while the pipe is full.                         *)
Write ==
  /\ call = "write" /\ ~exited
  /\ written < input /\ inpipe < Capacity
  /\ written' = written + 1 /\ inpipe' = inpipe + 1
  /\ UNCHANGED <<config, daemon, call, eof, printed, outpipe, exited, stdout>>

(* MUTANT of CloseStdin: the pipe stays open.                              *)
StdinStaysOpen ==
  /\ call = "write" /\ (exited \/ written = input)
  /\ call' = "wait"
  /\ UNCHANGED <<config, daemon, written, inpipe, eof, printed, outpipe, exited, stdout>>

(* A command that is gone gives BrokenPipeError, which is ignored.         *)
CloseStdin ==
  /\ call = "write" /\ (exited \/ written = input)
  /\ call' = "wait" /\ eof' = TRUE
  /\ UNCHANGED <<config, daemon, written, inpipe, printed, outpipe, exited, stdout>>

Wait ==
  /\ call = "wait" /\ exited
  /\ call' = IF want THEN "read" ELSE "returned"
  /\ UNCHANGED <<config, daemon, written, inpipe, eof, printed, outpipe, exited, stdout>>

(* MUTANT of Read: readline() in place of read().                          *)
ReadLine ==
  /\ call = "read" /\ (outpipe > 0 \/ daemon # "up")
  /\ call' = "returned" /\ stdout' = (IF outpipe > 0 THEN 1 ELSE 0) /\ outpipe' = 0
  /\ UNCHANGED <<config, daemon, written, inpipe, eof, printed, exited>>

(* proc.stdout.read() returns at the end of file: when nobody has the      *)
(* writing end any more.                                                   *)
Read ==
  /\ call = "read" /\ exited /\ daemon # "up"
  /\ call' = "returned" /\ stdout' = outpipe /\ outpipe' = 0
  /\ UNCHANGED <<config, daemon, written, inpipe, eof, printed, exited>>

(***************************************************************************)
(* The command.                                                            *)
(***************************************************************************)
CommandReads ==
  /\ ~exited /\ reads /\ inpipe > 0
  /\ inpipe' = inpipe - 1
  /\ UNCHANGED <<config, daemon, call, written, eof, printed, outpipe, exited, stdout>>

CommandPrints ==
  /\ ~exited /\ printed < output
  /\ ~want \/ outpipe < Capacity
  /\ printed' = printed + 1
  /\ outpipe' = IF want THEN outpipe + 1 ELSE 0
  /\ UNCHANGED <<config, daemon, call, written, inpipe, eof, exited, stdout>>

CommandForks ==
  /\ ~exited /\ daemon = "yet" /\ daemon' = "up"
  /\ UNCHANGED <<config, call, written, inpipe, eof, printed, outpipe, exited, stdout>>

CommandExits ==
  /\ ~exited /\ printed = output /\ daemon # "yet"
  /\ reads => eof /\ inpipe = 0
  /\ exited' = TRUE
  /\ UNCHANGED <<config, daemon, call, written, inpipe, eof, printed, outpipe, stdout>>

DaemonExits ==
  /\ daemon = "up" /\ daemon' = "gone"
  /\ UNCHANGED <<config, call, written, inpipe, eof, printed, outpipe, exited, stdout>>

Builder == Write \/ CloseStdin \/ Wait \/ Read
Command == CommandReads \/ CommandPrints \/ CommandForks \/ CommandExits

CallNext == Builder \/ Command \/ DaemonExits

(* Both sides go on when they can; a daemon need not ever exit.            *)
CallSpec == CallInit /\ [][CallNext]_callVars /\ WF_callVars(Builder) /\ WF_callVars(Command)

-----------------------------------------------------------------------------
CallTypeOK ==
  /\ input \in 0 .. NoInput /\ want \in BOOLEAN /\ output \in 0 .. MaxOutput
  /\ reads \in BOOLEAN /\ daemon \in {"no", "yet", "up", "gone"}
  /\ call \in {"write", "wait", "read", "returned"}
  /\ written \in 0 .. MaxInput /\ inpipe \in 0 .. Capacity
  /\ eof \in BOOLEAN /\ exited \in BOOLEAN
  /\ printed \in 0 .. MaxOutput /\ outpipe \in 0 .. Capacity
  /\ stdout \in 0 .. Capacity

(* What a caller has to respect for run_external to come back: no empty    *)
(* stdin for a command that reads it (the pipe is opened and never closed),*)
(* and with want_stdout no more output than a pipe holds and no daemon that*)
(* keeps stdout open.                                                      *)
Harmless ==
  /\ reads => input # 0
  /\ want => output <= Capacity /\ daemon = "no"

(* A call within these limits returns, however the writes and reads of the *)
(* two sides interleave.                                                   *)
HarmlessReturns == Harmless ~> call = "returned"

(* What is returned is all the command has printed: gpg_eval and           *)
(* parse_preset_file never work on a part of the output.                   *)
OutputIsComplete == call = "returned" /\ want => stdout = output
=============================================================================
