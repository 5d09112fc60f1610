CONSTANTS
    Char <- AllChars
    MaxCity = 3
    OutSize = 4
    PathRoom = 10
    UrlRoom = 9
    MaxLat = 40
    MaxLon = 80
    Fine = 10
    Arguments <- AllArguments
    Lines <- AllLines
    Coordinates <- AllCoordinates
    Junk = Junk
    MaxCommands = 2
    None = None
SPECIFICATION Spec
INVARIANTS TypeOK AnswersTheQuestion AsksWhatWasTyped CommandFreesItsOwn
PROPERTIES SpellingsShare
