---------------------------- MODULE PanelHeight ----------------------------
(***************************************************************************)
(* The height of the output panel (web-ui/src/hooks/usePanelResize.ts and  *)
(* useKeyboardShortcuts.ts): it is dragged by its upper edge, and          *)
(* minimised and restored by a button or the space bar, which have a copy  *)
(* of the code each.                                                       *)
(***************************************************************************)
EXTENDS Naturals

CONSTANTS
    MinHeight,  \* MIN_HEIGHT: at this height, or less, the panel counts as minimised
    Margin,     \* MIN_VIEWPORT_MARGIN, left free above and below when dragging
    Windows     \* heights of the browser's window

ASSUME HeightAssumption ==
    MinHeight \in Nat \ {0} /\ Margin \in Nat \ {0} /\ Windows \subseteq Nat

VARIABLES
    innerHeight,
    statusPanelHeight, previousPanelHeight,
    isDragging,
    saved       \* the height that was last minimised, 0 for none (history)

heightVars == <<innerHeight, statusPanelHeight, previousPanelHeight, isDragging, saved>>

HeightInit ==
    /\ innerHeight \in Windows
    /\ statusPanelHeight = MinHeight /\ previousPanelHeight = innerHeight \div 2
    /\ isDragging = FALSE /\ saved = 0

-----------------------------------------------------------------------------
\* What a minimised panel goes back to: unless something larger was saved, half the window.
TargetHeight ==
    IF previousPanelHeight > MinHeight THEN previousPanelHeight ELSE innerHeight \div 2

Restore ==
    /\ statusPanelHeight <= MinHeight
    /\ statusPanelHeight' = TargetHeight
    /\ UNCHANGED <<innerHeight, previousPanelHeight, isDragging, saved>>

Minimize ==
    /\ statusPanelHeight > MinHeight
    /\ previousPanelHeight' = statusPanelHeight /\ saved' = statusPanelHeight
    /\ statusPanelHeight' = MinHeight
    /\ UNCHANGED <<innerHeight, isDragging>>

\* The button in the panel's head.
ToggleMinimizePanel == Restore \/ Minimize

\* The key forgets to save what the button would restore.
MinimizeOnly ==
    \/ Restore
    \/ /\ statusPanelHeight > MinHeight /\ statusPanelHeight' = MinHeight
       /\ saved' = statusPanelHeight
       /\ UNCHANGED <<innerHeight, previousPanelHeight, isDragging>>

\* The space bar.
HandleSpacebarKey ==
    \/ Restore
    \/ /\ statusPanelHeight > MinHeight
       /\ previousPanelHeight' = statusPanelHeight /\ saved' = statusPanelHeight
       /\ statusPanelHeight' = MinHeight
       /\ UNCHANGED <<innerHeight, isDragging>>

HandleResizeStart ==
    /\ ~isDragging /\ isDragging' = TRUE
    /\ UNCHANGED <<innerHeight, statusPanelHeight, previousPanelHeight, saved>>

\* The pointer's distance from the lower edge is the new height, within the margins: the
\* panel may become lower than it is drawn.
HandleResizeMove(h) ==
    /\ isDragging /\ h >= Margin /\ h + Margin <= innerHeight
    /\ statusPanelHeight' = h
    /\ UNCHANGED <<innerHeight, previousPanelHeight, isDragging, saved>>

HandleResizeEnd ==
    /\ isDragging /\ isDragging' = FALSE
    /\ UNCHANGED <<innerHeight, statusPanelHeight, previousPanelHeight, saved>>

\* The user makes the window another size.  Nothing follows it.
WindowResized(w) ==
    /\ innerHeight' = w
    /\ UNCHANGED <<statusPanelHeight, previousPanelHeight, isDragging, saved>>

HeightNext ==
    \/ ToggleMinimizePanel \/ HandleSpacebarKey
    \/ HandleResizeStart \/ HandleResizeEnd
    \/ \E h \in 0..innerHeight : HandleResizeMove(h)
    \/ \E w \in Windows : WindowResized(w)

HeightSpec == HeightInit /\ [][HeightNext]_heightVars

-----------------------------------------------------------------------------
(* Properties                                                              *)

HeightTypeOK ==
    /\ innerHeight \in Windows /\ isDragging \in BOOLEAN
    /\ statusPanelHeight \in Nat /\ previousPanelHeight \in Nat /\ saved \in Nat

\* What was saved is what would be restored; a height too small to be seen is never saved.
HeightInv ==
    HeightTypeOK /\ (saved # 0 => previousPanelHeight = saved /\ saved > MinHeight)

\* A panel that was minimised, by the button or by the key, comes back at the height it had,
\* whichever of the two restores it and whatever was dragged and resized in between; and in
\* a window that has room for it a minimised panel always opens.
PanelRestores ==
    [][statusPanelHeight <= MinHeight /\ (ToggleMinimizePanel \/ HandleSpacebarKey) =>
          /\ saved # 0 => statusPanelHeight' = saved
          /\ innerHeight \div 2 > MinHeight => statusPanelHeight' > MinHeight]_heightVars
=============================================================================
