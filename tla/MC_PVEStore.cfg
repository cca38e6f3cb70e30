CONSTANTS
    t1 = t1
    t2 = t2
    t3 = t3
    Absent = Absent
    Tribes <- MCTribes
    MaxFaults = 0
SPECIFICATION Spec
SYMMETRY MCSymmetry
PROPERTY SaveAppliesLists
