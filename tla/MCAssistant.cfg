SPECIFICATION MCSpec
CONSTANTS
    p1 = p1
    p2 = p2
    a = a
    b = b
    c = c
    q1 = q1
    tool = tool
    stray = stray
    NoPrompt = noprompt
    Prompts = {p1, p2}
    Promotions = {a, b, c}
    Evaluated = {p1, p2}
    NameOf <- MCNameOf
    SlotOf <- MCSlotOf
    Given <- MCGiven
    Queries = {q1}
    Inputs <- MCInputs
    AnswerSlot = "qa"
    Tools = {tool}
    Stray = {stray}
    Texts <- MCTexts
    Ends = {"data", "opaque", "failed", "nothing", "raised", "late"}
    MaxUses = 2
    MaxToolRounds = 1
INVARIANTS
    TypeOK
    PromptsConsistent
    ResultsMatchCalls
PROPERTIES
    EveryQueryAnswered
