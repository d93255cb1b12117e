--------------------------- MODULE MCKeyboardIrq ---------------------------
EXTENDS KeyboardIrq

CONSTANTS a, p, t   \* glyphs: a key, the prompt's, the boot text's

MCBootText == <<t, t>>
MCPrompt == <<p>>

MCEnabled == [irq1 |-> TRUE, clock |-> TRUE]

(* A controller that is slow to reply is left enabled by the firmware:     *)
(* keyboard_init does nothing for it.                                      *)
MCSetups ==
  {m \in [keepsRequest : BOOLEAN, slowReply : BOOLEAN, firmware : Config] :
     m.slowReply => m.firmware = MCEnabled}

MCForgetful == {m \in MCSetups : ~m.keepsRequest /\ ~m.slowReply}
=============================================================================
