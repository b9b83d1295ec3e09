SPECIFICATION RequestsSpec
CONSTANTS
    Fields = {assets}
    ListFields = {assets}
    Need = need
    Details = {}
    Answers = {a1, a2}
    Blank = Blank
    TaskCount = 1
    Sections = {scope}
    Requests = {r1, r2}
    Workers = {}
    MaxRevisions = 2
    MaxEditions = 1
    MaxLessons = 1
    Reviews = {}

CHECK_DEADLOCK FALSE
PROPERTIES
    RevisionsAreImmutable
