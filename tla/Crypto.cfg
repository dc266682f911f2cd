\* The feed, the decisions and the reports, each by itself.
SPECIFICATION Spec
CONSTANTS
    None = None
    \* Two pairs, with a window the candles outgrow.
    Pairs = {"btc", "eth"}
    Subscribed = {"btc", "eth"}
    Window = 2
    Studies = {"rsi", "macd"}
    Needs <- HalfAndFull
    MaxTickers = 1
    MaxCandles = 3
    \* Two-sided, one-sided and empty books, in the middle and at both ends; any answer.
    Dollar = 40
    Quotes = {2, 4, 12, 20, 22, 36, 38}
    Confidences <- AnyConfidence
    Liquidities = {0, 1}
    RsiValues = {20, 25, 75, 80}
    Threshold = 10
    MinLiquidity = 1
    \* Reports of two trades, of which three are made.
    Workers = {"w1", "w2"}
    Prices = {1, 3}
    Fee = 1
    Quantity = 2
    Page = 2
    MaxTrades <- OneTrades
INVARIANTS
    OrdersJustified
    ReportsSound
PROPERTIES
    FeedSound
    UnrealizedSettles
