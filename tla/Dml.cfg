CONSTANTS
    IntBits = 8
    MAX_EPHEMERAL_ROWS = 100
    catalog <- MCcatalog
    compile_subquery_cond <- SubqueryCond
    compile_subquery_value <- SubqueryValue
    hoist_where <- hoist_uncorrelated_where_subqueries
    memoize_where <- memoize_correlated_where_subqueries
    materialize_from <- materialize_from_subquery
    insert_row <- InsertRow
    RefSubquery <- RefRows
    Outcome <- execute_transaction_step
    Answers <- SqlAllows
    Given <- MCGiven
    Databases <- MCDatabases
    Fronts = {"exec", "repl"}
    MaxStatements <- MCMaxStatements
SPECIFICATION Spec
INVARIANTS
    AutoincrementGrows
    
    IndexesMatchTables
    CatalogSound
    AnalyzeCounts
    CatalogIsCurrent
PROPERTIES
    CookieAnnouncesSchema
