------------------------- MODULE MCGameDetection -------------------------
(* GameDetection on two matches; LCU and Live Client agree, are silent or    *)
(* contradict each other about the mode.                                     *)
EXTENDS GameDetection

Mode(lcu, live) == [lcu |-> lcu, live |-> live]
MCModes == {Mode("lol", "lol"), Mode("tft", "lol"), Mode("none", "tft")}
====
