--------------------------- MODULE MCLightCommands ---------------------------
EXTENDS LightCommands, TLC
\* Off, and on with a brightness or a white that the bulb does not have at first.
OffBrightWhite ==
  {TurnOff, TurnOn \o <<[attr |-> "lightLevel", val |-> "bright"]>>,
            TurnOn \o <<[attr |-> "colorMode", val |-> "temperature"]>>}
\* The calls differ in nothing but their name, and every property is an invariant.
CallSymmetry == Permutations(Calls)
=============================================================================
