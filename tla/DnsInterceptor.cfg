SPECIFICATION Spec
CONSTANTS
    App = {app}
    Resolver = {r1, r2}
    Name <- MCName
    Selections <- MCSelections
    MaxStarts = 2
    MaxOwn = 2
SYMMETRY Alike
INVARIANTS
    OwnLookupsAreDirect
    AnswersItsOwn
    NothingStaysSteered
