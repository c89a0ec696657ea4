SPECIFICATION BusSpec
CONSTANTS
    block = block
    log = log
    tap = tap
    console = console
    Source = {block, log}
    Logs = {log}
    Reader = {tap, console}
    Mine <- Filters
    Ring = 2
    MaxEvents = 2
    MaxOpens = 1
INVARIANTS
    NothingVanishes
PROPERTIES
    KeepsTheFeed
