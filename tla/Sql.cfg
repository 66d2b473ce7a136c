CONSTANTS
    IntBits = 8
    MAX_EPHEMERAL_ROWS = 100
    catalog <- MCcatalog
    compile_subquery_cond <- SubqueryCond
    compile_subquery_value <- SubqueryValue
    hoist_where <- hoist_uncorrelated_where_subqueries
    memoize_where <- memoize_correlated_where_subqueries
    materialize_from <- materialize_from_subquery
    insert_row <- NoInsert
    RefSubquery <- RefRows
    Compiler <- Compiled
    Machine <- Execution
    Answers <- SqlAllows
SPECIFICATION Spec
INVARIANTS
    
    AccessPathsAgree
    AggregatesAgree
    SubqueriesAgree
    
    RewritesAgree
