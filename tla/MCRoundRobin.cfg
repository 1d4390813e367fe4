SPECIFICATION Spec
CONSTANT MaxNodes = 15
INVARIANT TypeOK
INVARIANT DisjointRounds
INVARIANT MeetOnce
