CONSTANTS
    a = a
    b = b
    c = c
    d = d
    box = box
    big = big
    small = small
    Leaf = {a, b, c, d}
    Container = {box}
    Group = {big, small}
    Under <- MCUnder
SPECIFICATION TreeSpec
INVARIANTS
    CopiesAgree
    SelectionSurvives
PROPERTIES
    ClicksDecide
