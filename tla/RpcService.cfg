SPECIFICATION Spec
CONSTANTS
    NoId = "none"
    BadId = "object"
    NullId = "null"
    MaxBlock = 2
    Names <- MCNames
    Apis <- MCApis
    Objects <- MCObjects
    Requests <- MCRequests
INVARIANTS NeverMiscalled AnswersMatch
PROPERTIES StaysRegistered
