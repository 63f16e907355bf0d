------------------------------ MODULE Transcript ------------------------------
(***************************************************************************)
(* The transcript of the four operator TUIs (mgmt_tui, gnmi_tui of the     *)
(* peer tool, server_tui, tunnel_tui): a capped list of lines seen through *)
(* a window of the terminal, which scrolls while output arrives, and, in   *)
(* the first two, the input line with its history.                         *)
(*                                                                         *)
(* A line is its width in columns. One action is one message printed, one  *)
(* key, or one change of the terminal's size.                              *)
(***************************************************************************)
EXTENDS Integers, SequencesExt

CONSTANTS
  Cap,         \* lines kept: 200000, 5000, 8000 and 5000 in the code
  Heights,     \* rows the terminal may have
  Columns,     \* columns of the terminal
  Messages,    \* what is printed at once: sequences of line widths
  Typings,     \* commands the operator types
  MaxPrinted   \* bound: lines printed

ASSUME TranscriptAssumption ==
  /\ Cap \in Nat \ {0} /\ Columns \in Nat
  /\ Heights \subseteq Nat /\ Messages \subseteq Seq(Nat)

VARIABLES
  screen,      \* which of the four it is
  rows,        \* rows of m_out; 0 while it has not been made
  view,        \* m_lines, m_scroll, m_hscroll, and how many lines were dropped
  prompt       \* m_input, m_history, m_hist_idx

tui == <<screen, rows, view, prompt>>

WithInput == {"mgmt", "peer"}
Screens == WithInput \cup {"server", "tunnel"}
Pan == 8
Wheel == 3
NoInput == ""

Least(a, b) == IF a < b THEN a ELSE b
Most(a, b) == IF a < b THEN b ELSE a
Clamp(x, low, high) == Most(low, Least(x, high))

\* Rows of m_out that show lines: the two with an input line keep the last
\* one for the horizontal scrollbar.
ViewH(h) == IF screen \in WithInput THEN h - 1 ELSE h

\* The line at the top of the view, as an index from 0.
First(v, h) == Most(0, Len(v.lines) - ViewH(h) - v.scroll)

TranscriptTypeOK ==
  /\ screen \in Screens /\ rows \in Nat
  /\ Len(view.lines) \in 0..Cap /\ view.scroll \in Nat /\ view.hscroll \in Nat
  /\ prompt.idx \in 0..Len(prompt.history)
  /\ \A i \in 2..Len(prompt.history) : prompt.history[i - 1] # prompt.history[i]

-----------------------------------------------------------------------------
(* redraw_out: the offsets are clamped to what there is to see.            *)

ClampScroll(v, h) == [v EXCEPT !.scroll = Clamp(@, 0, Most(0, Len(v.lines) - ViewH(h)))]

VerticalBar(v, h) == Columns > 2 /\ Len(v.lines) > ViewH(h)
TextW(v, h) == IF VerticalBar(v, h) THEN Columns - 1 ELSE Columns
Widest(v, h) ==
  LET first == First(v, h)
      shown == SubSeq(v.lines, first + 1, Least(Len(v.lines), first + ViewH(h)))
  IN Max({0} \cup Range(shown))
ClampPan(v, h) ==
  IF screen \notin WithInput THEN v
  ELSE [v EXCEPT !.hscroll = Clamp(@, 0, Most(0, Widest(v, h) - TextW(v, h)))]

RedrawOut(v, h) == IF h = 0 THEN v ELSE ClampPan(ClampScroll(v, h), h)

\* push_history.
PushHistoryUncapped(v, line) == [v EXCEPT !.lines = Append(@, line)]
PushHistory(v, line) ==
  IF Len(v.lines) < Cap THEN [v EXCEPT !.lines = Append(@, line)]
  ELSE [v EXCEPT !.lines = Append(Tail(@), line), !.dropped = @ + 1]

\* println: a view that is scrolled up is held.
HoldLoses(v, added) == v
Hold(v, added) == IF v.scroll > 0 THEN [v EXCEPT !.scroll = @ + added] ELSE v
Println(v, lines) ==
  LET pushed[i \in 0..Len(lines)] ==
        IF i = 0 THEN v ELSE PushHistory(pushed[i - 1], lines[i])
  IN RedrawOut(Hold(pushed[Len(lines)], Len(lines)), rows)

Printed(v) == v.dropped + Len(v.lines)

\* The rows of m_out that relayout makes for a terminal of h rows; none when
\* the terminal is too small, and then the windows stay as they were.
Targets(h) == Most(1, Least(Clamp(h \div 3, 4, 10), h - 4))
OutRows(h) ==
  CASE screen = "mgmt"   -> IF h < 7 \/ Columns < 10 THEN 0 ELSE Most(1, h - 5)
    [] screen = "peer"   -> IF h < 5 \/ Columns < 4 THEN 0 ELSE Most(1, h - 5)
    [] screen = "server" -> IF h < 3 \/ Columns < 4 THEN 0 ELSE h - 2
    [] screen = "tunnel" -> IF h < 5 \/ Columns < 4 THEN 0
                            ELSE Most(1, h - Targets(h) - 3)

\* The constructors; gnmi_tui makes its first windows without that test.
FirstRows(h) == IF screen = "peer" THEN Most(1, h - 5) ELSE OutRows(h)
Greeting == 16
TranscriptInit ==
  /\ screen \in Screens
  /\ \E h \in Heights : rows = FirstRows(h)
  /\ view = [lines |-> <<Greeting>>, scroll |-> 0, hscroll |-> 0, dropped |-> 0]
  /\ prompt = [input |-> NoInput, history |-> <<>>, idx |-> 0]

-----------------------------------------------------------------------------
(* Output and the terminal.                                                *)

Prints(lines) ==
  /\ Printed(view) + Len(lines) <= MaxPrinted
  /\ view' = Println(view, lines)

Output ==
  /\ \E m \in Messages : Prints(m)
  /\ UNCHANGED <<screen, rows, prompt>>

\* on_winch, and KEY_RESIZE.
Relayout ==
  \E h \in Heights :
    LET out == OutRows(h)
    IN /\ out # 0
       /\ rows' = out
       /\ view' = RedrawOut(view, out)
       /\ UNCHANGED <<screen, prompt>>

-----------------------------------------------------------------------------
(* handle_read, one key. Without a window there is none to read from.      *)

Views(v) ==
  /\ rows # 0
  /\ view' = RedrawOut(v, rows)
  /\ UNCHANGED <<screen, rows, prompt>>

\* scroll_by: a line, a page (all rows of m_out but one), the wheel.
ScrollBy(n) == Views([view EXCEPT !.scroll = Most(0, @ + n)])
Page == IF rows > 1 THEN rows - 1 ELSE 1
Scroll == \E n \in {1, Page, Wheel} : ScrollBy(n) \/ ScrollBy(-n)
Home == Views([view EXCEPT !.scroll = Len(view.lines)])
End == Views([view EXCEPT !.scroll = 0])
PanBy(n) ==
  /\ screen \in WithInput
  /\ Views([view EXCEPT !.hscroll = Most(0, @ + n)])

Edits(p) ==
  /\ screen \in WithInput /\ rows # 0
  /\ prompt' = p
  /\ UNCHANGED <<screen, rows>>

Types(c) == Edits([prompt EXCEPT !.input = c]) /\ UNCHANGED view
\* submit_input, dispatch: the command is recorded unless it repeats the last
\* one, and what it prints is printed.
Submit ==
  /\ prompt.input # NoInput
  /\ LET h == prompt.history
         kept == IF h # <<>> /\ Last(h) = prompt.input THEN h ELSE Append(h, prompt.input)
     IN /\ Len(kept) <= MaxPrinted
        /\ Edits([input |-> NoInput, history |-> kept, idx |-> Len(kept)])
  /\ \E m \in Messages : Prints(m)
\* KEY_UP and KEY_DOWN: past the newest command the line is empty.
Older ==
  /\ prompt.idx > 0
  /\ Edits([prompt EXCEPT !.idx = @ - 1, !.input = prompt.history[prompt.idx]])
  /\ UNCHANGED view
Newer ==
  LET i == prompt.idx + 1
  IN /\ prompt.idx < Len(prompt.history)
     /\ Edits([prompt EXCEPT !.idx = i,
                 !.input = IF i < Len(prompt.history) THEN prompt.history[i + 1]
                           ELSE NoInput])
     /\ UNCHANGED view

TranscriptNext ==
  \/ Output \/ Relayout \/ Scroll \/ Home \/ End
  \/ PanBy(Pan) \/ PanBy(-Pan)
  \/ Submit \/ Older \/ Newer
  \/ \E c \in Typings : Types(c)

TranscriptSpec == TranscriptInit /\ [][TranscriptNext]_tui

-----------------------------------------------------------------------------
(* Properties.                                                             *)

\* "If the user has scrolled up, keep their view anchored to the same lines
\* as new output arrives; otherwise stay pinned to the newest line."
\* (gnmi_tui.cpp:419): while output arrives the line at the top of a view that
\* is scrolled up stays the same, unless the cap drops it; a view at the
\* bottom stays at the bottom (println, push_history, redraw_out).
Top(v, h) == v.dropped + First(v, h)
ViewHolds ==
  [][ Printed(view') > Printed(view) /\ rows # 0 =>
        IF view.scroll > 0
        THEN Top(view', rows') = Most(Top(view, rows), view'.dropped)
        ELSE view'.scroll = 0 ]_tui
=============================================================================
