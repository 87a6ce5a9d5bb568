\* Two access points, two channels, three unread events.
SPECIFICATION Spec
CONSTANTS
    AccessPoints = {1, 2}
    Freqs = {11, 12}
    MaxEvents = 3
INVARIANTS
    LinkFresh
    PollDescribesLink
