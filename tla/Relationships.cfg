CONSTANTS
    k1 = k1
    k2 = k2
    Key <- MCKey
    Class <- MCClass
    Rel <- MCRel
    EndA <- MCEndA
    EndB <- MCEndB
    MultAB <- MCMultAB
    MultBA <- MCMultBA
    MaxLinks = 2
SPECIFICATION RSpec
INVARIANTS
    LinksTypeOK
    AtMostOne
    ChainIsComposition
PROPERTIES
    OneLinkAtATime
