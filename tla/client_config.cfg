SPECIFICATION ConfigureSpec
CONSTANTS
    MaxEdits = 3
    MaxCrashes = 2
    MaxInodes = 8
PROPERTY EditsSafe
CONSTRAINT FewInodes
