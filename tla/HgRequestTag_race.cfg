\* Two forwarding threads, a 3-bit counter with request_max_tag = 4.
\* Single-property run: the counterexample is a finding.
CONSTANTS
    Threads = {t1, t2}
    MaxTag = 4
    Width = 3
    MaxCalls = 6
SPECIFICATION Spec
CHECK_DEADLOCK FALSE
INVARIANT
    TagInRange
