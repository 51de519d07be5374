CONSTANTS
    People = {ann, bob}
    Approver = boss
    Server = server
    Providers = {google, graph}
    ServerProvider = graph
    SignedIn = {graph}
    Reports = {google, graph}
    Holds = {h1}
    Nothing = Nothing
    Jobs = {j1, j2}
    Budgets <- MCBudgets
SPECIFICATION FairSpec
INVARIANTS OnlyTheApprover SaidIsSo 
CHECK_DEADLOCK FALSE
 
