SPECIFICATION FairSpec
CONSTANTS
    Clients = {"a", "b"}
    Points <- MCPoints
    SavedFeatures <- MCFeatures
    Queries <- MCQueries
    Rectangles <- MCRectangles
    Routes <- MCRoutes
    ChatScript <- MCScript
    Distance <- MCDistance
    Window = 1
    NoPoint = NoPoint
    End = End
INVARIANTS AnswersRight
PROPERTIES ImplementsNoteBoard EverybodyFinishes
