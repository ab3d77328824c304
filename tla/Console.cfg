SPECIFICATION ConsoleSpec
CONSTANTS
    Handlers = {h1, h2}
    Catalog <- CatalogBound
    Seeds = {1, 2}
    FIRST = 1
    Buttons <- ButtonsBound
    Writes <- WritesBound
INVARIANT ScriptYields
PROPERTY CommandsGiven
PROPERTY LastOpenRuns
