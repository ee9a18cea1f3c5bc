SPECIFICATION FairSpec
CONSTANTS
    Names = {list, readme, image, absent}
    Files = {list, readme, image}
    Big = {image}
    MaxCommands = 3
    NoName = NoName
    NoLine = NoLine
CHECK_DEADLOCK FALSE
INVARIANTS TypeOK LetIn InStep OutputTrue
PROPERTIES Responds
