------------------------------ MODULE PopupStack ------------------------------
(***************************************************************************)
(* The popup windows on top of the main window (src/UI/Display.cpp): the    *)
(* list that begins at mgr.next, the window shown last at its end.  Only    *)
(* that window receives touches (Window::FindEvent).                        *)
(***************************************************************************)
LOCAL INSTANCE Integers
LOCAL INSTANCE Sequences

IsPopupActive(stack, p) == \E i \in 1..Len(stack) : stack[i] = p

OnTop(stack) == IF stack = <<>> THEN "main" ELSE stack[Len(stack)]

\* A window that is displayed already stays where it is.
SetPopup(stack, p) == IF IsPopupActive(stack, p) THEN stack ELSE Append(stack, p)

\* ClearPopup(redraw, nullptr): the window on top, whichever it is.
ClearPopup(stack) == IF stack = <<>> THEN stack ELSE SubSeq(stack, 1, Len(stack) - 1)

\* ClearPopup(redraw, p): only if p is on top.
ClearThisPopup(stack, p) == IF OnTop(stack) = p THEN ClearPopup(stack) ELSE stack
=============================================================================
