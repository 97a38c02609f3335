----------------------------- MODULE MCSoloMining -----------------------------
(* SoloMining for TLC: the ways the miner may be started. *)
EXTENDS SoloMining

CONSTANTS m1, m2

Started(g, a, l, f) == [gbt : g, getwork : a, longpoll : l, infoFails : f]
Bounded(threads, modes, c, s, n) ==
  {[threads |-> threads, gbt |-> d.gbt, getwork |-> d.getwork, longpoll |-> d.longpoll,
    infoFails |-> d.infoFails, chain |-> c, shares |-> s, failures |-> n] : d \in modes}

One == {m1}
Two == {m1, m2}

SoloModes ==
  \* no long polling: by getwork, or by getblocktemplate and from some time on getwork
  Bounded(Two, Started({FALSE}, {TRUE}, {FALSE}, {FALSE}), 2, 1, 0) \cup
  Bounded(Two, Started({TRUE}, {TRUE}, {FALSE}, {FALSE}), 1, 1, 1) \cup
  Bounded(One, Started({TRUE}, {TRUE}, {FALSE}, {FALSE}), 2, 1, 1) \cup
  Bounded(One, Started({TRUE}, {TRUE}, {FALSE}, {TRUE}), 1, 1, 2) \cup
  \* by getblocktemplate only, with long polling
  Bounded(Two, Started({TRUE}, {FALSE}, {TRUE}, {FALSE}), 1, 1, 0) \cup
  \* with long polling and a fall-back, and by getwork with long polling
  Bounded(One, Started({TRUE}, {TRUE}, {TRUE}, {FALSE}), 1, 1, 0) \cup
  Bounded(Two, Started({TRUE}, {TRUE}, {TRUE}, {FALSE}), 0, 0, 0) \cup
  Bounded(One, Started({FALSE}, {TRUE}, {TRUE}, {FALSE}), 1, 1, 1)

TemplateMode == Bounded(Two, Started({TRUE}, {FALSE}, {FALSE}, {FALSE}), 1, 1, 1)
GetworkPollMode == Bounded(Two, Started({FALSE}, {TRUE}, {TRUE}, {FALSE}), 2, 1, 0)
=============================================================================
