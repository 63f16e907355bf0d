------------------------------ MODULE PeerShell ------------------------------
(***************************************************************************)
(* headless_shell and gnmi_cmd of the gnmi_peer tool: commands are read    *)
(* line by line from standard input, each starts a call or a subscription  *)
(* that runs on while the next lines are read, and at the end of the input *)
(* a shell that has run a command quits after a grace period. One action   *)
(* is one read, the timer, or one result of a call.                        *)
(*                                                                         *)
(* The input is a sequence of tokens: words, Blank, and the ends of lines. *)
(* The first word of a line is the verb; "spec" stands for a specification *)
(* that parses.                                                            *)
(***************************************************************************)
EXTENDS Naturals, SequencesExt, Maps, Lists

CONSTANTS
  Scripts,     \* what standard input may hold
  MaxResponses    \* bound: responses of one subscription

ASSUME PeerShellAssumption == Scripts \subseteq Seq(STRING) /\ MaxResponses \in Nat

VARIABLES
  script,      \* standard input from the start
  unread,      \* how much of it is left
  shell,       \* line: m_line; ran: the lines dispatched (m_dispatched of
               \* them); quit: event_base_loopbreak was called
  watching,    \* stdin is watched
  timer,       \* the grace period runs
  calls,       \* call id -> verb and count of the calls that run
  output       \* what was printed for each call, in order

peershell == <<script, unread, shell, watching, timer, calls, output>>

NL == "NL"
CR == "CR"
Blank == "BLANK"
Verbs == {"set", "get", "sub"}

PeerShellTypeOK ==
  /\ unread \in 0..Len(script)
  /\ {shell.quit, watching, timer} \subseteq BOOLEAN
  /\ DOMAIN calls \subseteq DOMAIN output
  /\ \A id \in DOMAIN calls : calls[id].verb \in Verbs /\ calls[id].count \in 0..MaxResponses

PeerShellInit ==
  /\ script \in Scripts
  /\ unread = Len(script)
  /\ shell = [line |-> <<>>, ran |-> <<>>, quit |-> FALSE]
  /\ watching = TRUE /\ timer = FALSE
  /\ calls = EmptyMap
  /\ output = <<>>

-----------------------------------------------------------------------------
(* gnmi_cmd.                                                               *)

\* dispatch: the verb, with or without "gnmi" before it.
Words(line) == Keep(line, Range(line) \ {Blank})
CommandWords(line) ==
  LET w == Words(line)
  IN IF Len(w) > 0 /\ w[1] = "gnmi" THEN Tail(w) ELSE w

\* do_set, do_get, do_subscribe: nothing is sent without a specification.
StartsCall(line) ==
  LET w == CommandWords(line) IN Len(w) = 2 /\ w[1] \in Verbs /\ w[2] = "spec"
Quits(line) == LET w == CommandWords(line) IN Len(w) > 0 /\ w[1] = "quit"

-----------------------------------------------------------------------------
(* headless_shell.                                                         *)

\* flush_line: a blank line does nothing.
FlushLine(s) ==
  IF Words(s.line) = <<>> THEN [s EXCEPT !.line = <<>>]
  ELSE [line |-> <<>>, ran |-> Append(s.ran, s.line), quit |-> s.quit \/ Quits(s.line)]

ReadToken(s, t) ==
  CASE t = NL -> FlushLine(s)
    [] t = CR -> s
    [] OTHER  -> [s EXCEPT !.line = Append(@, t)]
ReadTokens(s, chunk) ==
  LET read[i \in 0..Len(chunk)] == IF i = 0 THEN s ELSE ReadToken(read[i - 1], chunk[i])
  IN read[Len(chunk)]
ReadChunkAfresh(s, chunk) == ReadTokens([s EXCEPT !.line = <<>>], chunk)
ReadChunk(s, chunk) == ReadTokens(s, chunk)

Consumed == Len(script) - unread
Serves == ~shell.quit

\* The calls that the lines ran by one read start, after the n there were.
Started(lines) == Keep(lines, {l \in Range(lines) : StartsCall(l)})

\* handle_read: any amount of what is left. event_base_loopbreak takes effect
\* when the read is done, so the lines behind a `quit' run too.
ShellRead ==
  /\ Serves /\ watching /\ unread > 0
  /\ \E n \in 1..unread :
       LET s     == ReadChunk(shell, SubSeq(script, Consumed + 1, Consumed + n))
           added == Started(SubSeq(s.ran, Len(shell.ran) + 1, Len(s.ran)))
           old   == Len(output)
       IN /\ shell' = s
          /\ unread' = unread - n
          /\ output' = output \o [i \in DOMAIN added |-> <<>>]
          /\ calls' = [id \in DOMAIN calls \cup (old + 1)..(old + Len(added)) |->
                         IF id \in DOMAIN calls THEN calls[id]
                         ELSE [verb |-> CommandWords(added[id - old])[1], count |-> 0]]
  /\ UNCHANGED <<script, watching, timer>>

\* End of file: the watch ends; only a shell that ran a command will quit.
ShellEof ==
  /\ Serves /\ watching /\ unread = 0
  /\ watching' = FALSE
  /\ timer' = (shell.ran # <<>>)
  /\ UNCHANGED <<script, unread, shell, calls, output>>

ShellTimeout ==
  /\ Serves /\ timer
  /\ shell' = [shell EXCEPT !.quit = TRUE]
  /\ timer' = FALSE
  /\ UNCHANGED <<script, unread, watching, calls, output>>

-----------------------------------------------------------------------------
(* Results. A loop that was broken delivers none.                          *)

PrintsFor(id, what, n) ==
  output' = [output EXCEPT ![id] = Append(@, [what |-> what, n |-> n])]

\* render_set_resp, render_get_resp: one outcome, then the call is over.
Respond(id, outcome) ==
  /\ Serves /\ id \in DOMAIN calls /\ calls[id].verb # "sub"
  /\ PrintsFor(id, outcome, 0)
  /\ calls' = MapErase(calls, {id})
  /\ UNCHANGED <<script, unread, shell, watching, timer>>

\* The callback for a response: only a notification counts; a sync_response
\* or one that does not parse is printed without a number.
Count(id) == [calls EXCEPT ![id].count = @ + 1]
Notified(id) ==
  /\ Serves /\ id \in DOMAIN calls /\ calls[id].verb = "sub"
  /\ calls[id].count < MaxResponses
  /\ calls' = Count(id)
  /\ PrintsFor(id, "notif", Count(id)[id].count)
  /\ UNCHANGED <<script, unread, shell, watching, timer>>
Unnumbered(id) ==
  /\ Serves /\ id \in DOMAIN calls /\ calls[id].verb = "sub"
  /\ Len(output[id]) < MaxResponses
  /\ PrintsFor(id, "sync", 0)
  /\ UNCHANGED <<script, unread, shell, watching, timer, calls>>
\* The final callback: the total.
StreamEnded(id) ==
  /\ Serves /\ id \in DOMAIN calls /\ calls[id].verb = "sub"
  /\ PrintsFor(id, "ended", calls[id].count)
  /\ calls' = MapErase(calls, {id})
  /\ UNCHANGED <<script, unread, shell, watching, timer>>

PeerShellNext ==
  \/ ShellRead \/ ShellEof \/ ShellTimeout
  \/ \E id \in DOMAIN calls :
       \/ \E o \in {"OK", "error", "transport error"} : Respond(id, o)
       \/ Notified(id) \/ Unnumbered(id) \/ StreamEnded(id)

PeerShellSpec == PeerShellInit /\ [][PeerShellNext]_peershell

-----------------------------------------------------------------------------
(* Properties.                                                             *)

\* The lines of a text that end and are not blank, without their CRs.
LinesOf(text) ==
  LET ends     == {i \in DOMAIN text : text[i] = NL}
      start(e) == 1 + Max({0} \cup {i \in ends : i < e})
      line(e)  == LET raw == SubSeq(text, start(e), e - 1) IN Keep(raw, Range(raw) \ {CR})
      all      == [i \in DOMAIN text |-> IF i \in ends THEN line(i) ELSE <<>>]
  IN Keep(all, {l \in Range(all) : Words(l) # <<>>})

\* However the input is cut into reads, the shell has run exactly the lines
\* it has read to their end, in order, and each that names a call has started
\* one; the responses of a subscription are numbered 1, 2, ... by its own
\* count, whichever others run, up to the total it ends with; and the shell
\* leaves only by a quit line or, once its input has ended, if it ran a line
\* (handle_read, flush_line, do_subscribe, handle_timeout).
Numbers(lines, what) ==
  LET mine == Keep(lines, {x \in Range(lines) : x.what = what})
  IN [i \in DOMAIN mine |-> mine[i].n]
ShellRunsItsInput ==
  /\ shell.ran = LinesOf(SubSeq(script, 1, Consumed))
  /\ Len(output) = Len(Started(shell.ran))
  /\ \A id \in DOMAIN output :
       LET n == Numbers(output[id], "notif")
       IN n = [i \in DOMAIN n |-> i] /\ Range(Numbers(output[id], "ended")) \subseteq {Len(n)}
  /\ shell.quit =>
       \/ \E i \in DOMAIN shell.ran : Quits(shell.ran[i])
       \/ unread = 0 /\ ~watching /\ shell.ran # <<>>
=============================================================================
