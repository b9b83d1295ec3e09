SPECIFICATION SessionSpec
CONSTANTS
    Fields = {assets}
    ListFields = {assets}
    Need = need
    Details = {detail}
    Answers = {a1}
    Blank = Blank
    TaskCount = 2
    Sections = {scope}
    Requests = {r1}
    Workers = {w1}
    MaxRevisions = 2
    MaxEditions = 1
    MaxLessons = 0
    Reviews = {}

CHECK_DEADLOCK FALSE
INVARIANTS
    OfferedIsAnswered
    OpenQuestionBlocks
    TracedToApproval
    CompletedIsWhole
