SPECIFICATION Spec
CONSTANTS
    Rows <- SomeRows
    Filters <- SomeFilters
    Queries <- SomeQueries
    ThisMonth <- SecondMonth
    LastMonth <- FirstMonth
    Limit = 2
    MaxWrites = 2
    None = None
INVARIANTS
    PagesShowEachOnce
    ReportIsRight
