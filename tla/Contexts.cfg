\* Three threads, up to four contexts, closed in the reverse order.
CONSTANTS
    Threads = {t1, t2, t3}
    Writers = {w1, w2, w3, w4}
    None = None
    Nested = TRUE
SPECIFICATION Spec
INVARIANTS TypeOK WriterIsOpen ConfigIsInnermost
