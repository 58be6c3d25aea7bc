\* two commands of the hosts: an authentication and an encryption cross
SPECIFICATION Spec
CONSTANTS
    r1 = r1
    r2 = r2
    r3 = r3
    r4 = r4
    r5 = r5
    r6 = r6
    r7 = r7
    r8 = r8
    r9 = r9
    r10 = r10
    r11 = r11
    r12 = r12
    r13 = r13
    r14 = r14
    r15 = r15
    r16 = r16
    None = None
    Nonce = {r1, r2, r3, r4, r5, r6, r7, r8, r9, r10, r11, r12, r13, r14, r15, r16}
    Pin = {"1", "2"}
    Configs <- Pairs
    Commands = 2
INVARIANT PausedInProcess
CHECK_DEADLOCK FALSE
