SPECIFICATION RunSpec
CONSTANTS
    list = list
    shell = shell
    text = text
    inner = inner
    Runs = {r1}
    Argvs = {list, shell}
    Texts = {text, inner}
    Text <- SameText
    Payload <- InlinePayload
    Dirs = {d1, d2}
    Outside = outside
    Agents = {g}
    Sessions = {}
    Null = Null
    Absent = Absent
    Refused = Refused
    MaxPlans = 2
INVARIANTS
    RunTypeOK
    RunsApprovedPlan
    AnswerTrue
PROPERTY
    EveryForwardAnswered
