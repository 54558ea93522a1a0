SPECIFICATION LiveSpec
CONSTANTS
    leading = leading
    following = following
    stranger = stranger
    unset = unset
    other = other
    mine = mine
    others = others
    stale = stale
    None = None
    Calls = {leading, following, stranger, unset}
    Self = self
    Others = {other}
    PropSet <- MCPropSet
    Prop <- MCProp
    Messages <- MCMessages
CHECK_DEADLOCK FALSE
INVARIANT CallKeepsItsRound
PROPERTIES CallsEnd HandlersFinish
