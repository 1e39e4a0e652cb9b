\* The value of a call of queue_forecast beside two threads on a queue of one element.
SPECIFICATION ForecastSpec
CONSTANTS
    Threads = {t1, t2}
    Elements = {zero}
    Zero = zero
    NULL = null
    Capacity = 1
    Calls = {"push", "pop", "abort"}
PROPERTIES
    ForecastWasTrue
