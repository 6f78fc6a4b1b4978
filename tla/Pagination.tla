----------------------------- MODULE Pagination -----------------------------
(***************************************************************************)
(* src/src/utils/pagination.ts as operators.  A parameter of the query is  *)
(* the set of the number it parses to: empty when it is missing or no      *)
(* number.  A collection is the sequence of its items.                     *)
(***************************************************************************)
LOCAL INSTANCE Integers
LOCAL INSTANCE Sequences

LOCAL Larger(a, b) == IF a > b THEN a ELSE b
LOCAL Smaller(a, b) == IF a < b THEN a ELSE b

DEFAULT_PAGINATION_CONFIG ==
  [defaultPage |-> 1, defaultLimit |-> 20, maxLimit |-> 100, minLimit |-> 1]

\* The one number of a parameter that the test lets through, or the default.
LOCAL OrDefault(param, default, test(_)) ==
  IF \E n \in param : test(n) THEN CHOOSE n \in param : TRUE ELSE default

\* A limit of 0 counts as missing.
validatePagination(pageParam, limitParam, config) ==
  LET page == OrDefault(pageParam, config.defaultPage, LAMBDA n : n >= 1)
      asked == OrDefault(limitParam, config.defaultLimit, LAMBDA n : n # 0)
      limit == Larger(config.minLimit, Smaller(config.maxLimit, asked))
  IN  [page |-> page, limit |-> limit, offset |-> (page - 1) * limit]

createPaginationMeta(page, limit, total) ==
  LET totalPages == Larger(1, (total + limit - 1) \div limit)
  IN  [page |-> page, limit |-> limit, total |-> total, totalPages |-> totalPages,
       hasPreviousPage |-> page > 1, hasNextPage |-> page < totalPages]

createPaginatedResponse(items, total, pagination) ==
  [data |-> items,
   meta |-> createPaginationMeta(pagination.page, pagination.limit, total)]

\* fetchData: LIMIT and OFFSET of a query over the collection.
fetchData(collection, limit, offset) ==
  SubSeq(collection, offset + 1, Smaller(offset + limit, Len(collection)))

handlePagination(pageParam, limitParam, config, collection) ==
  LET pagination == validatePagination(pageParam, limitParam, config)
  IN  createPaginatedResponse(
        fetchData(collection, pagination.limit, pagination.offset),
        Len(collection), pagination)
=============================================================================
