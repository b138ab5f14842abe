CONSTANTS
  core = core
  search = search
  header = header
  d1 = d1
  d2 = d2
  d3 = d3
  d4 = d4
  d5 = d5
  Core = {core}
  Deferred = {d1, d2, d3, d4, d5}
  Namespaces <- MCNamespaces
  Search = search
  Bytes <- MCBytes
  Budgets = {2, 3, 6, 8}
  TopK = 2
SPECIFICATION ToolSpec
INVARIANTS LoadedIsMostRecent LastUsedIsShown
