\* Two helpers started, any number that could not be; one change of two wants, or
\* the page's word; a silence of one tick, delays of one and two, a tail of one.
CONSTANTS
    v = v
    w = w
    Wanted = {v, w}
    Silence = 1
    LongestDelay = 2
    ShowingTail = 1
    MaxStarts = 2
    MaxWords = 1
    None = None
SPECIFICATION MCSpec
INVARIANTS OneHelper StatusOfTheHelper
PROPERTIES BacksOff StartsSoonAgain SilenceEnds WantReaches
