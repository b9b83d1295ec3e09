SPECIFICATION RequestsSpec
CONSTANTS
    Fields = {assets}
    ListFields = {assets}
    Need = need
    Details = {}
    Answers = {a1}
    Blank = Blank
    TaskCount = 1
    Sections = {scope}
    Requests = {r1, r2}
    Workers = {}
    MaxRevisions = 2
    MaxEditions = 1
    MaxLessons = 2
    Reviews = {"pending_review"}

SYMMETRY Symmetric
CHECK_DEADLOCK FALSE
INVARIANTS
    OfferedIsAccepted
    PromptIsCurrent
PROPERTIES
    OnlyUnreadRevisionsAreLost
    OnlyUnreadLessonsAreLost
