-------------------------------- MODULE View --------------------------------
(***************************************************************************)
(* The chat pane the user sees (src/src/ui.rs), which every turn of the UI *)
(* loop draws anew from the state of App.  Of the text only its height is  *)
(* kept: a long line is wrapped into several rows of the pane.  Styles,    *)
(* labels, the roster and the lines of the system log are left out.        *)
(***************************************************************************)
EXTENDS Hop6

CONSTANTS
  LongBodies,   \* texts too long for one row of the pane
  LongRows,     \* the rows such a line takes
  Viewports     \* heights of the pane, in rows

ASSUME ViewAssumption ==
  /\ LongBodies \subseteq Nat
  /\ LongRows \in Nat \ {0}
  /\ Viewports \subseteq Nat \ {0}

\* The lines of the focused conversation, none if there is no such.
build_chat_lines == IF active \in DOMAIN peers THEN peers[active].log ELSE <<>>

\* Fault: the window is anchored at the top.
window_from_top(viewport) ==
  LET log == build_chat_lines
      end == scroll + viewport
  IN  SubSeq(log, scroll + 1, IF end > Len(log) THEN Len(log) ELSE end)

Minus(m, n) == IF m < n THEN 0 ELSE m - n

\* The lines start .. end of the log, counted from 0, end excluded: as many as
\* the pane has rows, anchored at the bottom.
visible(viewport) ==
  LET log == build_chat_lines
      end == Minus(Len(log), scroll)
      start == Minus(end, viewport)
  IN  SubSeq(log, start + 1, end)

\* Rows that the wrapped lines before the i-th take.
Wrapped(ls, i) == {j \in 1 .. i - 1 : ls[j].body \in LongBodies}

RowsAbove(ls, i) == (i - 1) + (LongRows - 1) * Cardinality(Wrapped(ls, i))

\* The paragraph is drawn from its top row, and what does not fit is cut off
\* at the bottom: the lines of which at least the first row is on the screen.
render_chat(viewport) ==
  LET window == visible(viewport)
      drawn == {i \in DOMAIN window : RowsAbove(window, i) < viewport}
  IN  [i \in drawn |-> window[i]]

-----------------------------------------------------------------------------
(* Properties.                                                             *)

\* The last line of the log is in the pane, unless one above it is wrapped: that
\* may push it off the bottom.
NewestDrawn(viewport) ==
  LET window == visible(viewport)
      n == Len(window)
  IN  Wrapped(window, n) = {} =>
        /\ n \in DOMAIN render_chat(viewport)
        /\ render_chat(viewport)[n] = Last(build_chat_lines)

\* However far the user has scrolled, past the top of the log too: a line that
\* is typed into the focused conversation, or arrives in it, is drawn on a
\* screen of any height, if no line above it in the pane is wrapped.
NewestIsShown ==
  [][/\ logged' # logged
     /\ active' = active
     /\ build_chat_lines' # <<>>
     /\ Last(build_chat_lines').at = logged'
     => \A viewport \in Viewports : NewestDrawn(viewport)']_vars
=============================================================================
